---- MODULE Spec2Model ----
(***************************************************************************)
(* A model of the rsg2 retained scene graph: the tree arena of scene.rs    *)
(* (RSGScene over a slotmap arena, its mutation operations, the subtree    *)
(* add transaction and the observer event stream).                         *)
(***************************************************************************)
EXTENDS Integers, Sequences, FiniteSets, TLC

\* Number of arena slots the model lets the slotmap grow to.
NSlots == 4
\* Number of arena inserts the model follows; past NSlots of them, slots are reused.
MaxInserts == 5

\* Option::None; Some(k) is the key k itself, a pair <<index, version>>.
None == <<>>

Slots == 1..NSlots

\* CompLinksT::default()
DefaultLinks == 0

VARIABLES
    arena,        \* RSGScene.arena: [slots, free], the slotmap
    root_key,     \* RSGScene.root_key
    observer,     \* the events the observer was notified of by the last operation
    transaction,  \* the RSGSubtreeAddTransaction being staged
    last,         \* the last operation: its name, argument and results
    asserts_ok,   \* FALSE once an internal debug_assert of the code has failed
    freed,        \* the keys whose slot an operation has freed so far
    has_observer, \* RSGScene.observer.is_some()
    components,   \* RSGComponentContainer: slotmaps and secondary maps
    opaque_list,  \* the caller's RSGRenderList of opaque nodes: <<key, f32>> pairs
    alpha_list,   \* the caller's RSGRenderList of translucent nodes
    scene_observer, \* an RSGSceneObserver, the canonical observer
    received,     \* the events scene_observer has received since new() or reset()
    debug_assertions, \* whether the build has cfg(debug_assertions): debug_assert! is
                  \* compiled in
    call          \* the build_render_lists call in progress: the main thread's
                  \* position and locals, the pool's jobs, the two channels

vars == <<arena, root_key, observer, transaction, last, asserts_ok, freed, has_observer,
          components, opaque_list, alpha_list, scene_observer, received, debug_assertions,
          call>>

\* no build_render_lists call is in progress
NoCall ==
    [pc |-> "idle", start_node_key |-> <<>>, camera_properties_3d |-> <<>>,
     dirty_world_roots |-> <<>>, dirty_opacity_roots |-> <<>>, tie |-> 0,
     components_in |-> <<>>, update_opacities |-> FALSE, update_transforms |-> FALSE,
     nodes |-> <<>>, stacking_order_2d |-> 0, pool |-> 0, queue |-> <<>>, running |-> {},
     opacity_rx |-> <<>>, transform_rx |-> <<>>]

----------------------------------------------------------------------------
(* RSGNode *)

\* a constructor that drops the links it is given
with_component_links_dropped(comp_links) ==
    [key |-> None, parent_key |-> None,
     first_child_key |-> None, last_child_key |-> None,
     prev_sibling_key |-> None, next_sibling_key |-> None,
     comp_links |-> DefaultLinks]

with_component_links(comp_links) ==
    [key |-> None, parent_key |-> None,
     first_child_key |-> None, last_child_key |-> None,
     prev_sibling_key |-> None, next_sibling_key |-> None,
     comp_links |-> comp_links]

RSGNode_new == with_component_links(DefaultLinks)

is_clean(node) ==
    /\ node.key = None /\ node.parent_key = None
    /\ node.first_child_key = None /\ node.last_child_key = None
    /\ node.prev_sibling_key = None /\ node.next_sibling_key = None

links(node) ==
    <<node.key, node.parent_key, node.first_child_key, node.last_child_key,
      node.prev_sibling_key, node.next_sibling_key>>

----------------------------------------------------------------------------
(* slotmap::SlotMap, as the arena uses it.  A slot holds a version (odd     *)
(* while occupied, bumped by insert and by remove) and a value; freed       *)
(* slots are chained on a LIFO free list and reused before a new slot is    *)
(* pushed.                                                                  *)

VacantSlot == [version |-> 0, value |-> RSGNode_new]

SlotMap_new == [slots |-> [i \in Slots |-> VacantSlot], free |-> <<>>]

\* slots.len(): slots are pushed in index order
sm_num_slots(sm) == Cardinality({i \in Slots : sm.slots[i].version > 0})

\* SlotMap::len()
sm_len(sm) == Cardinality({i \in Slots : sm.slots[i].version % 2 = 1})

\* SlotMap::contains_key / get(..).is_some()
sm_contains(sm, k) ==
    /\ k # None
    /\ k[1] \in Slots
    /\ sm.slots[k[1]].version = k[2]

\* SlotMap::keys(): the keys of the occupied slots
sm_keys(sm) == {<<i, sm.slots[i].version>> : i \in {j \in Slots : sm.slots[j].version % 2 = 1}}

\* the index the next insert takes: the head of the free list, else a new slot
sm_next_index(sm) ==
    IF sm.free # <<>> THEN Head(sm.free) ELSE sm_num_slots(sm) + 1

\* the number of inserts so far: a slot's version goes up by two per occupancy
RECURSIVE sm_inserts_upto(_, _)
sm_inserts_upto(sm, i) ==
    IF i = 0 THEN 0 ELSE (sm.slots[i].version + 1) \div 2 + sm_inserts_upto(sm, i - 1)

\* whether the model's bounds leave room for one more insert
sm_has_room(sm) ==
    /\ sm_next_index(sm) \in Slots
    /\ sm_inserts_upto(sm, NSlots) < MaxInserts

\* the key SlotMap::insert returns
sm_insert_key(sm) ==
    <<sm_next_index(sm), sm.slots[sm_next_index(sm)].version + 1>>

\* SlotMap::insert: the map afterwards
sm_insert(sm, value) ==
    LET k == sm_insert_key(sm) IN
    [slots |-> [sm.slots EXCEPT ![k[1]] = [version |-> k[2], value |-> value]],
     free  |-> IF sm.free # <<>> THEN Tail(sm.free) ELSE sm.free]

\* SlotMap::remove that takes the version back to the one before the insert
sm_remove_unversioned(sm, k) ==
    [slots |-> [sm.slots EXCEPT ![k[1]] =
                    [version |-> @.version - 1, value |-> RSGNode_new]],
     free  |-> <<k[1]>> \o sm.free]

\* SlotMap::remove of a key the map contains: the map afterwards
sm_remove(sm, k) ==
    [slots |-> [sm.slots EXCEPT ![k[1]] =
                    [version |-> @.version + 1, value |-> RSGNode_new]],
     free  |-> <<k[1]>> \o sm.free]

----------------------------------------------------------------------------
(* RSGScene.  The operations are functions of a scene record s =            *)
(* [arena, root_key, observer, ok]; an action applies one of them to the    *)
(* current state.                                                           *)

\* arena[key]
Node(s, k) == s.arena.slots[k[1]].value

\* a failed debug_assert inside an operation
debug_assert(s, cond) == IF cond THEN s ELSE [s EXCEPT !.ok = FALSE]

node_count(s) == sm_len(s.arena)

is_valid(s, node_key) ==
    /\ sm_contains(s.arena, node_key)
    /\ \/ Node(s, node_key).parent_key # None
       \/ Node(s, node_key).key = s.root_key

\* The bound on the steps of a walk over the arena: a walk of n nodes takes 2n.
IterFuel == 2 * NSlots + 2

\* traverse(): RSGIter run to its end.  state is the iterator's `next` field:
\* None, <<"AcceptAndVisitChildren", key, depth>> or <<"VisitSiblings", key, depth>>.
RECURSIVE RSGIter_next(_, _, _, _, _)
\* RSGIter::next that keeps the depth when it goes back up to the parent
RSGIter_next_flat(s, start_key, state, acc, fuel) ==
    IF state = None \/ fuel = 0 THEN acc
    ELSE IF state[1] = "AcceptAndVisitChildren"
    THEN RSGIter_next(s, start_key,
             IF Node(s, state[2]).first_child_key # None
             THEN <<"AcceptAndVisitChildren", Node(s, state[2]).first_child_key, state[3] + 1>>
             ELSE <<"VisitSiblings", state[2], state[3]>>,
             Append(acc, <<state[2], state[3]>>), fuel - 1)
    ELSE IF state[2] # start_key
    THEN RSGIter_next(s, start_key,
             IF Node(s, state[2]).next_sibling_key # None
             THEN <<"AcceptAndVisitChildren", Node(s, state[2]).next_sibling_key, state[3]>>
             ELSE <<"VisitSiblings", Node(s, state[2]).parent_key, state[3]>>,
             acc, fuel - 1)
    ELSE acc

RSGIter_next(s, start_key, state, acc, fuel) ==
    IF state = None \/ fuel = 0 THEN acc
    ELSE IF state[1] = "AcceptAndVisitChildren"
    THEN RSGIter_next(s, start_key,
             IF Node(s, state[2]).first_child_key # None
             THEN <<"AcceptAndVisitChildren", Node(s, state[2]).first_child_key, state[3] + 1>>
             ELSE <<"VisitSiblings", state[2], state[3]>>,
             Append(acc, <<state[2], state[3]>>), fuel - 1)
    ELSE IF state[2] # start_key
    THEN RSGIter_next(s, start_key,
             IF Node(s, state[2]).next_sibling_key # None
             THEN <<"AcceptAndVisitChildren", Node(s, state[2]).next_sibling_key, state[3]>>
             ELSE <<"VisitSiblings", Node(s, state[2]).parent_key, state[3] - 1>>,
             acc, fuel - 1)
    ELSE acc

\* depth-first, pre-order: the sequence of <<key, depth>> the iterator yields
traverse(s, node_key) ==
    RSGIter_next(s, node_key, <<"AcceptAndVisitChildren", node_key, 0>>, <<>>, IterFuel)

\* RSGAncestorIter run to its end from `next`
RECURSIVE RSGAncestorIter_next(_, _, _, _)
RSGAncestorIter_next(s, next, acc, fuel) ==
    IF next = None \/ fuel = 0 THEN acc
    ELSE RSGAncestorIter_next(s, Node(s, next).parent_key, Append(acc, next), fuel - 1)

ancestors(s, node_key) ==
    RSGAncestorIter_next(s, Node(s, node_key).parent_key, <<>>, NSlots + 1)

\* ancestors_with_node that starts at the parent, as ancestors does
ancestors_with_node_skipping(s, node_key) ==
    RSGAncestorIter_next(s, Node(s, node_key).parent_key, <<>>, NSlots + 1)

ancestors_with_node(s, node_key) ==
    RSGAncestorIter_next(s, node_key, <<>>, NSlots + 1)

\* The sibling list from k on, first to last.
RECURSIVE SiblingsFrom(_, _, _)
SiblingsFrom(s, k, fuel) ==
    IF k = None \/ fuel = 0 THEN <<>>
    ELSE <<k>> \o SiblingsFrom(s, Node(s, k).next_sibling_key, fuel - 1)

\* The children of a node as its sibling list gives them.
Children(s, k) == SiblingsFrom(s, Node(s, k).first_child_key, NSlots + 1)

\* Whether k is on the sibling list that starts at from.
RECURSIVE InSiblings(_, _, _, _)
InSiblings(s, from, k, fuel) ==
    /\ from # None
    /\ fuel > 0
    /\ from = k \/ InSiblings(s, Node(s, from).next_sibling_key, k, fuel - 1)

\* What an observer that looks at the scene from inside notify() sees of the
\* event's node: whether it is valid, its parent, whether its parent's child
\* list holds it, the size of the subtree traverse() gives, and node_count().
Seen(s, k) ==
    IF sm_contains(s.arena, k)
    THEN [valid  |-> is_valid(s, k),
          parent |-> Node(s, k).parent_key,
          linked |-> /\ Node(s, k).parent_key # None
                     /\ sm_contains(s.arena, Node(s, k).parent_key)
                     /\ InSiblings(s, Node(s, Node(s, k).parent_key).first_child_key,
                                   k, NSlots + 1),
          size   |-> Len(traverse(s, k)),
          count  |-> node_count(s)]
    ELSE [valid |-> FALSE, parent |-> None, linked |-> FALSE, size |-> 0,
          count |-> node_count(s)]

\* RSGEvent values
SubtreeAddedOrReattached(k) == [type |-> "SubtreeAddedOrReattached", key |-> k, flags |-> 0]
SubtreeAboutToBeRemoved(k) == [type |-> "SubtreeAboutToBeRemoved", key |-> k, flags |-> 0]
SubtreeAboutToBeTemporarilyDetached(k) ==
    [type |-> "SubtreeAboutToBeTemporarilyDetached", key |-> k, flags |-> 0]
Dirty(k, f) == [type |-> "Dirty", key |-> k, flags |-> f]

\* RSGScene::notify: the observer records the event, and the model records
\* with it what the scene looked like at that moment.
notify(s, event) ==
    IF s.has_observer
    THEN [s EXCEPT !.observer = Append(@, [event |-> event, seen |-> Seen(s, event.key)])]
    ELSE s

\* arena.insert(node) inside an operation; the key is sm_insert_key(s.arena)
arena_insert(s, node) == [s EXCEPT !.arena = sm_insert(@, node)]

\* arena.remove(key) inside an operation
arena_remove(s, key) == [s EXCEPT !.arena = sm_remove(@, key)]

\* set_root once the node is in the arena under key
set_root_inserted(s, key) ==
    notify([s EXCEPT !.root_key = key,
                     !.arena.slots[key[1]].value.key = key],
           SubtreeAddedOrReattached(key))

set_root(s, node) == set_root_inserted(arena_insert(s, node), sm_insert_key(s.arena))

\* append_impl that leaves the old last child's next_sibling_key as it was
append_impl_old_last_untouched(s, node_key, old_last_node_key) == s

\* append_impl: the old last child, if any, gets the new node as next sibling
append_impl_old_last(s, node_key, old_last_node_key) ==
    IF old_last_node_key # None
    THEN [debug_assert(s, Node(s, old_last_node_key).next_sibling_key = None)
             EXCEPT !.arena.slots[old_last_node_key[1]].value.next_sibling_key = node_key]
    ELSE s

\* append_impl with the parent's old last child read
append_impl_link(s, parent_key, node_key, old_last_node_key) ==
    append_impl_old_last(
        [s EXCEPT
           !.arena.slots[parent_key[1]].value.first_child_key =
               IF @ = None THEN node_key ELSE @,
           !.arena.slots[parent_key[1]].value.last_child_key = node_key,
           !.arena.slots[node_key[1]].value.key = node_key,
           !.arena.slots[node_key[1]].value.parent_key = parent_key,
           !.arena.slots[node_key[1]].value.prev_sibling_key = old_last_node_key,
           !.arena.slots[node_key[1]].value.next_sibling_key = None],
        node_key, old_last_node_key)

append_impl(s, parent_key, node_key) ==
    append_impl_link(s, parent_key, node_key, Node(s, parent_key).last_child_key)

append(s, parent_key, node) ==
    notify(append_impl(arena_insert(s, node), parent_key, sm_insert_key(s.arena)),
           SubtreeAddedOrReattached(sm_insert_key(s.arena)))

\* prepend_impl: the old first child, if any, gets the new node as previous sibling
prepend_impl_old_first(s, node_key, old_first_node_key) ==
    IF old_first_node_key # None
    THEN [debug_assert(s, Node(s, old_first_node_key).prev_sibling_key = None)
             EXCEPT !.arena.slots[old_first_node_key[1]].value.prev_sibling_key = node_key]
    ELSE s

\* prepend_impl that links the node where append_impl does
prepend_impl_at_end(s, parent_key, node_key) == append_impl(s, parent_key, node_key)

\* prepend_impl with the parent's old first child read
prepend_impl_link(s, parent_key, node_key, old_first_node_key) ==
    prepend_impl_old_first(
        [s EXCEPT
           !.arena.slots[parent_key[1]].value.first_child_key = node_key,
           !.arena.slots[parent_key[1]].value.last_child_key =
               IF @ = None THEN node_key ELSE @,
           !.arena.slots[node_key[1]].value.key = node_key,
           !.arena.slots[node_key[1]].value.parent_key = parent_key,
           !.arena.slots[node_key[1]].value.prev_sibling_key = None,
           !.arena.slots[node_key[1]].value.next_sibling_key = old_first_node_key],
        node_key, old_first_node_key)

prepend_impl(s, parent_key, node_key) ==
    prepend_impl_link(s, parent_key, node_key, Node(s, parent_key).first_child_key)

prepend(s, parent_key, node) ==
    notify(prepend_impl(arena_insert(s, node), parent_key, sm_insert_key(s.arena)),
           SubtreeAddedOrReattached(sm_insert_key(s.arena)))

\* insert_before_impl: the old previous sibling, or else the parent, is pointed
\* at the new node
insert_before_impl_outer(s, before_key, node_key, parent_key, old_prev_sibling_key) ==
    IF old_prev_sibling_key # None
    THEN [s EXCEPT !.arena.slots[old_prev_sibling_key[1]].value.next_sibling_key = node_key]
    ELSE [debug_assert(s, Node(s, parent_key).first_child_key = before_key)
             EXCEPT !.arena.slots[parent_key[1]].value.first_child_key = node_key]

\* insert_before_impl with the parent and the old previous sibling read
insert_before_impl_link(s, before_key, node_key, parent_key, old_prev_sibling_key) ==
    insert_before_impl_outer(
        [s EXCEPT
           !.arena.slots[before_key[1]].value.prev_sibling_key = node_key,
           !.arena.slots[node_key[1]].value.key = node_key,
           !.arena.slots[node_key[1]].value.parent_key = parent_key,
           !.arena.slots[node_key[1]].value.prev_sibling_key = old_prev_sibling_key,
           !.arena.slots[node_key[1]].value.next_sibling_key = before_key],
        before_key, node_key, parent_key, old_prev_sibling_key)

insert_before_impl(s, before_key, node_key) ==
    insert_before_impl_link(s, before_key, node_key,
        Node(s, before_key).parent_key, Node(s, before_key).prev_sibling_key)

insert_before(s, before_key, node) ==
    notify(insert_before_impl(arena_insert(s, node), before_key, sm_insert_key(s.arena)),
           SubtreeAddedOrReattached(sm_insert_key(s.arena)))

\* insert_after_impl: the old next sibling, or else the parent, is pointed at
\* the new node
insert_after_impl_outer(s, after_key, node_key, parent_key, old_next_sibling_key) ==
    IF old_next_sibling_key # None
    THEN [s EXCEPT !.arena.slots[old_next_sibling_key[1]].value.prev_sibling_key = node_key]
    ELSE [debug_assert(s, Node(s, parent_key).last_child_key = after_key)
             EXCEPT !.arena.slots[parent_key[1]].value.last_child_key = node_key]

\* insert_after_impl with the parent and the old next sibling read
insert_after_impl_link(s, after_key, node_key, parent_key, old_next_sibling_key) ==
    insert_after_impl_outer(
        [s EXCEPT
           !.arena.slots[after_key[1]].value.next_sibling_key = node_key,
           !.arena.slots[node_key[1]].value.key = node_key,
           !.arena.slots[node_key[1]].value.parent_key = parent_key,
           !.arena.slots[node_key[1]].value.prev_sibling_key = after_key,
           !.arena.slots[node_key[1]].value.next_sibling_key = old_next_sibling_key],
        after_key, node_key, parent_key, old_next_sibling_key)

insert_after_impl(s, after_key, node_key) ==
    insert_after_impl_link(s, after_key, node_key,
        Node(s, after_key).parent_key, Node(s, after_key).next_sibling_key)

insert_after(s, after_key, node) ==
    notify(insert_after_impl(arena_insert(s, node), after_key, sm_insert_key(s.arena)),
           SubtreeAddedOrReattached(sm_insert_key(s.arena)))

----------------------------------------------------------------------------
(* RSGSubtreeAddTransaction: entries are <<parent_key, node_key, op>>.      *)

RSGSubtreeAddTransaction_new == [entries |-> <<>>, possible_parent_keys |-> {}]

\* the debug_asserts of record_add_transaction
record_add_transaction_asserts(s, parent_key, node, txn) ==
    /\ is_clean(node)
    /\ txn.entries # <<>> \/ is_valid(s, parent_key)
    /\ txn.entries = <<>> \/ parent_key \in txn.possible_parent_keys

\* record_add_transaction that links the node at once
record_add_transaction_linking(s, op, parent_key, node, txn) ==
    [scene |-> append_impl(arena_insert(s, node), parent_key, sm_insert_key(s.arena)),
     transaction |->
        [entries |-> Append(txn.entries, <<parent_key, sm_insert_key(s.arena), op>>),
         possible_parent_keys |-> txn.possible_parent_keys \cup {sm_insert_key(s.arena)}]]

\* record_add_transaction: [scene, transaction] afterwards; the key it
\* returns is sm_insert_key(s.arena)
record_add_transaction(s, op, parent_key, node, txn) ==
    [scene |-> arena_insert(s, node),
     transaction |->
        [entries |-> Append(txn.entries, <<parent_key, sm_insert_key(s.arena), op>>),
         possible_parent_keys |-> txn.possible_parent_keys \cup {sm_insert_key(s.arena)}]]

append_with_transaction(s, parent_key, node, txn) ==
    record_add_transaction(s, "Append", parent_key, node, txn)

prepend_with_transaction(s, parent_key, node, txn) ==
    record_add_transaction(s, "Prepend", parent_key, node, txn)

\* a commit loop that links the first entry only
commit_loop_first_only(s, entries) ==
    IF entries = <<>> THEN s
    ELSE IF Head(entries)[3] = "Append"
    THEN append_impl(s, Head(entries)[1], Head(entries)[2])
    ELSE prepend_impl(s, Head(entries)[1], Head(entries)[2])

\* the loop of commit over the entries that are left
RECURSIVE commit_loop(_, _)
commit_loop(s, entries) ==
    IF entries = <<>> THEN s
    ELSE commit_loop(IF Head(entries)[3] = "Append"
                     THEN append_impl(s, Head(entries)[1], Head(entries)[2])
                     ELSE prepend_impl(s, Head(entries)[1], Head(entries)[2]),
                     Tail(entries))

\* the end of commit: the event for the subtree root, if there is one
commit_notify(s, subtree_root_key_opt) ==
    IF subtree_root_key_opt # None
    THEN notify(s, SubtreeAddedOrReattached(subtree_root_key_opt))
    ELSE s

\* commit that notifies before it links
commit_notify_first(s, txn) ==
    commit_loop(commit_notify(s, IF txn.entries = <<>> THEN None ELSE txn.entries[1][2]),
                txn.entries)

commit(s, txn) ==
    commit_notify(commit_loop(s, txn.entries),
                  IF txn.entries = <<>> THEN None ELSE txn.entries[1][2])

\* every arena.get_mut(..).unwrap() of commit finds its node
commit_unwraps(s, txn) ==
    \A i \in 1..Len(txn.entries) :
        /\ sm_contains(s.arena, txn.entries[i][1])
        /\ sm_contains(s.arena, txn.entries[i][2])

\* a rollback loop that removes nothing from the arena
rollback_loop_keeping(s, entries) == s

RECURSIVE rollback_loop(_, _)
rollback_loop(s, entries) ==
    IF entries = <<>> THEN s
    ELSE rollback_loop(
             IF sm_contains(s.arena, Head(entries)[2])
             THEN arena_remove(s, Head(entries)[2])
             ELSE s,
             Tail(entries))

\* rollback that tells the observer of the first node it frees
rollback_notifying(s, txn) ==
    IF txn.entries = <<>> THEN s
    ELSE rollback_loop(notify(s, SubtreeAboutToBeRemoved(txn.entries[1][2])), txn.entries)

rollback(s, txn) == rollback_loop(s, txn.entries)

----------------------------------------------------------------------------
(* Removal *)

\* remove_from_arena: `key` is the key of the inner loop (None between two
\* pops), stk the stack, its top last.
RECURSIVE remove_from_arena_loop(_, _, _, _)
remove_from_arena_loop(s, stk, key, fuel) ==
    IF fuel = 0 THEN s
    ELSE IF key = None
    THEN IF stk = <<>> THEN s
         ELSE remove_from_arena_loop(s, SubSeq(stk, 1, Len(stk) - 1), stk[Len(stk)], fuel - 1)
    ELSE remove_from_arena_loop(
             arena_remove(s, key),
             IF Node(s, key).first_child_key # None
             THEN Append(stk, Node(s, key).first_child_key) ELSE stk,
             Node(s, key).next_sibling_key,
             fuel - 1)

\* remove_from_arena that removes nothing
remove_from_arena_keeping(s, start_key_opt) == s

remove_from_arena(s, start_key_opt) ==
    IF start_key_opt = None THEN s
    ELSE remove_from_arena_loop(s, <<start_key_opt>>, None, IterFuel)

\* remove_helper that leaves the neighbours' and the parent's links as they were
remove_helper_unlink_nothing(s, node_key, node) == s

\* remove_helper: the four cases of unlinking `node`, which is out of the arena
remove_helper_unlink(s, node_key, node) ==
    IF node.prev_sibling_key # None /\ node.next_sibling_key # None
    THEN [s EXCEPT
            !.arena.slots[node.prev_sibling_key[1]].value.next_sibling_key =
                node.next_sibling_key,
            !.arena.slots[node.next_sibling_key[1]].value.prev_sibling_key =
                node.prev_sibling_key]
    ELSE IF node.prev_sibling_key # None /\ node.next_sibling_key = None
    THEN [debug_assert(s, node_key = Node(s, node.parent_key).last_child_key) EXCEPT
            !.arena.slots[node.parent_key[1]].value.last_child_key = node.prev_sibling_key,
            !.arena.slots[node.prev_sibling_key[1]].value.next_sibling_key = None]
    ELSE IF node.prev_sibling_key = None /\ node.next_sibling_key # None
    THEN [debug_assert(s, node_key = Node(s, node.parent_key).first_child_key) EXCEPT
            !.arena.slots[node.parent_key[1]].value.first_child_key = node.next_sibling_key,
            !.arena.slots[node.next_sibling_key[1]].value.prev_sibling_key = None]
    ELSE [debug_assert(s, /\ node_key = Node(s, node.parent_key).first_child_key
                          /\ node_key = Node(s, node.parent_key).last_child_key) EXCEPT
            !.arena.slots[node.parent_key[1]].value.first_child_key = None,
            !.arena.slots[node.parent_key[1]].value.last_child_key = None]

\* remove_helper from arena.remove(node_key) on; node is the removed value
remove_helper_removed(s, node_key, node, with_children) ==
    [scene |->
        IF with_children
        THEN remove_from_arena(remove_helper_unlink(arena_remove(s, node_key), node_key, node),
                               node.first_child_key)
        ELSE remove_helper_unlink(arena_remove(s, node_key), node_key, node),
     comp_links |-> node.comp_links]

\* remove_helper after its notify
remove_helper_notified(s, node_key, with_children) ==
    remove_helper_removed(s, node_key, Node(s, node_key), with_children)

\* remove_helper that notifies once the node is unlinked and freed
remove_helper_notifying_last(s, node_key, with_children) ==
    [scene |-> notify(remove_helper_notified(
                          IF with_children THEN s
                          ELSE [s EXCEPT
                                  !.arena.slots[node_key[1]].value.first_child_key = None,
                                  !.arena.slots[node_key[1]].value.last_child_key = None],
                          node_key, with_children).scene,
                      SubtreeAboutToBeRemoved(node_key)),
     comp_links |-> Node(s, node_key).comp_links]

\* remove_helper: [scene, comp_links], the scene afterwards and the links returned
remove_helper(s, node_key, with_children) ==
    remove_helper_notified(
        IF with_children
        THEN notify(s, SubtreeAboutToBeRemoved(node_key))
        ELSE notify([s EXCEPT
                       !.arena.slots[node_key[1]].value.first_child_key = None,
                       !.arena.slots[node_key[1]].value.last_child_key = None],
                    SubtreeAboutToBeRemoved(node_key)),
        node_key, with_children)

\* the assert and the unwraps of remove_helper
remove_helper_asserts(s, node_key) ==
    /\ s.root_key # None
    /\ node_key # s.root_key
    /\ sm_contains(s.arena, node_key)
    /\ Node(s, node_key).parent_key # None

remove(s, node_key) == remove_helper(s, node_key, TRUE)

\* the loop of remove_children from child_node_key_opt on; r is what
\* remove(key) returned for the child before it
RECURSIVE remove_children_loop(_, _, _, _)
\* remove_children that puts each child's links in front of the earlier ones
remove_children_removed_reversed(r, child_node_key_opt, component_links, fuel) ==
    remove_children_loop(r.scene, child_node_key_opt,
                         <<r.comp_links>> \o component_links, fuel)

remove_children_removed(r, child_node_key_opt, component_links, fuel) ==
    remove_children_loop(r.scene, child_node_key_opt,
                         Append(component_links, r.comp_links), fuel)

remove_children_loop(s, child_node_key_opt, component_links, fuel) ==
    IF child_node_key_opt = None \/ fuel = 0
    THEN [scene |-> s, component_links |-> component_links]
    ELSE remove_children_removed(remove(s, child_node_key_opt),
                                 Node(s, child_node_key_opt).next_sibling_key,
                                 component_links, fuel - 1)

remove_children(s, node_key) ==
    remove_children_loop(s, Node(s, node_key).first_child_key, <<>>, NSlots + 1)

clear(s) ==
    IF s.root_key # None THEN remove_children(s, s.root_key)
    ELSE [scene |-> s, component_links |-> <<>>]

----------------------------------------------------------------------------
(* Re-parenting *)

\* insert_under and remove_without_children that notify of no detached child
notify_detached_nothing(s, child_node_key_opt, fuel) == s

\* the loops of insert_under and remove_without_children that notify
\* SubtreeAboutToBeTemporarilyDetached for a node and its later siblings
RECURSIVE notify_detached(_, _, _)
notify_detached(s, child_node_key_opt, fuel) ==
    IF child_node_key_opt = None \/ fuel = 0 THEN s
    ELSE notify_detached(
             notify(s, SubtreeAboutToBeTemporarilyDetached(child_node_key_opt)),
             Node(s, child_node_key_opt).next_sibling_key, fuel - 1)

\* the last loop of insert_under: the children get the new parent
RECURSIVE insert_under_reparent(_, _, _, _)
insert_under_reparent(s, child_node_key_opt, node_key, fuel) ==
    IF child_node_key_opt = None \/ fuel = 0 THEN s
    ELSE insert_under_reparent(
             [s EXCEPT !.arena.slots[child_node_key_opt[1]].value.parent_key = node_key],
             Node(s, child_node_key_opt).next_sibling_key, node_key, fuel - 1)

\* insert_under that does not hand the parent's child list to the new node
insert_under_inserted_childless(s, parent_key, node_key) ==
    notify(
        insert_under_reparent(
            [s EXCEPT
               !.arena.slots[parent_key[1]].value.first_child_key = node_key,
               !.arena.slots[parent_key[1]].value.last_child_key = node_key,
               !.arena.slots[node_key[1]].value.key = node_key,
               !.arena.slots[node_key[1]].value.parent_key = parent_key],
            Node(s, parent_key).first_child_key, node_key, NSlots + 1),
        SubtreeAddedOrReattached(node_key))

\* insert_under once the children are notified and the node is in the arena
insert_under_inserted(s, parent_key, node_key) ==
    notify(
        insert_under_reparent(
            [s EXCEPT
               !.arena.slots[parent_key[1]].value.first_child_key = node_key,
               !.arena.slots[parent_key[1]].value.last_child_key = node_key,
               !.arena.slots[node_key[1]].value.key = node_key,
               !.arena.slots[node_key[1]].value.parent_key = parent_key,
               !.arena.slots[node_key[1]].value.first_child_key =
                   Node(s, parent_key).first_child_key,
               !.arena.slots[node_key[1]].value.last_child_key =
                   Node(s, parent_key).last_child_key],
            Node(s, parent_key).first_child_key, node_key, NSlots + 1),
        SubtreeAddedOrReattached(node_key))

insert_under(s, parent_key, node) ==
    insert_under_inserted(
        arena_insert(notify_detached(s, Node(s, parent_key).first_child_key, NSlots + 1),
                     node),
        parent_key, sm_insert_key(s.arena))

RECURSIVE remove_without_children_loop(_, _, _, _, _)
\* the last loop of remove_without_children without its notify
remove_without_children_loop_silent(s, child_node_key_opt, insert_children_before_key_opt, parent_key, fuel) ==
    IF child_node_key_opt = None \/ fuel = 0 THEN s
    ELSE remove_without_children_loop(
             IF insert_children_before_key_opt # None
             THEN insert_before_impl(s, insert_children_before_key_opt, child_node_key_opt)
             ELSE append_impl(s, parent_key, child_node_key_opt),
             Node(s, child_node_key_opt).next_sibling_key,
             insert_children_before_key_opt, parent_key, fuel - 1)

\* the last loop of remove_without_children: the children are linked back in
remove_without_children_loop(s, child_node_key_opt, insert_children_before_key_opt, parent_key, fuel) ==
    IF child_node_key_opt = None \/ fuel = 0 THEN s
    ELSE remove_without_children_loop(
             notify(IF insert_children_before_key_opt # None
                    THEN insert_before_impl(s, insert_children_before_key_opt,
                                            child_node_key_opt)
                    ELSE append_impl(s, parent_key, child_node_key_opt),
                    SubtreeAddedOrReattached(child_node_key_opt)),
             Node(s, child_node_key_opt).next_sibling_key,
             insert_children_before_key_opt, parent_key, fuel - 1)

\* remove_without_children after remove_helper returned r
remove_without_children_removed(r, child_node_key_opt, insert_children_before_key_opt, parent_key) ==
    [scene |-> remove_without_children_loop(r.scene, child_node_key_opt,
                   insert_children_before_key_opt, parent_key, NSlots + 1),
     comp_links |-> r.comp_links]

\* remove_without_children that always links the children in at the end
remove_without_children_at_end(s, node_key) ==
    remove_without_children_removed(
        remove_helper(notify_detached(s, Node(s, node_key).first_child_key, NSlots + 1),
                      node_key, FALSE),
        Node(s, node_key).first_child_key,
        None,
        Node(s, node_key).parent_key)

remove_without_children(s, node_key) ==
    remove_without_children_removed(
        remove_helper(notify_detached(s, Node(s, node_key).first_child_key, NSlots + 1),
                      node_key, FALSE),
        Node(s, node_key).first_child_key,
        Node(s, node_key).next_sibling_key,
        Node(s, node_key).parent_key)

\* mark_dirty that keeps the low byte of the flag word only
mark_dirty_low_byte(s, node_key, flags) == notify(s, Dirty(node_key, flags % 256))

mark_dirty(s, node_key, flags) == notify(s, Dirty(node_key, flags))

----------------------------------------------------------------------------
(* The operations with their checks, for calls that need not respect the    *)
(* preconditions.  assert! is in every build, debug_assert! in the builds   *)
(* with debug_assertions; a failed check and a failed unwrap both end the   *)
(* program (ok becomes FALSE), with the scene as it is at that point.       *)

\* a panic: the operation ends here
panic(s) == [s EXCEPT !.ok = FALSE]

\* set_root, from its first line
set_root_call(s, node, build) ==
    IF s.root_key # None THEN panic(s)
    ELSE IF build /\ ~ is_clean(node) THEN panic(s)
    ELSE set_root(s, node)

\* append, from its first line: the debug_assert!, arena.insert, and
\* append_impl, whose first unwrap is that of the parent
append_call(s, parent_key, node, build) ==
    IF build /\ ~ (is_clean(node) /\ is_valid(s, parent_key)) THEN panic(s)
    ELSE IF ~ sm_contains(s.arena, parent_key) THEN panic(arena_insert(s, node))
    ELSE append(s, parent_key, node)

\* remove (with_children) and remove_without_children, from the first line:
\* the assert! on the root, then for remove the notify and the unwrap of
\* arena.remove, for remove_without_children the unwrap of arena[node_key]
remove_call(s, node_key, with_children) ==
    IF s.root_key = None \/ node_key = s.root_key
    THEN [scene |-> panic(s), comp_links |-> DefaultLinks]
    ELSE IF ~ sm_contains(s.arena, node_key)
    THEN [scene |-> IF with_children
                    THEN panic(notify(s, SubtreeAboutToBeRemoved(node_key)))
                    ELSE panic(s),
          comp_links |-> DefaultLinks]
    ELSE IF with_children THEN remove(s, node_key)
    ELSE remove_without_children(s, node_key)

----------------------------------------------------------------------------
(* Components (components.rs).  A Mat4 is modelled as a word over the local *)
(* matrices, the product as concatenation: products are equal as words only *)
(* if they are equal for all matrices, and the order of the factors shows.  *)

\* glm::one()
Mat4_one == <<>>

\* a * b
Mat4_mul(a, b) == a \o b

RSGTransformComponent_new(local_transform) ==
    [local_transform |-> local_transform, world_transform |-> local_transform]

RSGLayerComponent_new == [layer |-> TRUE]

\* RSGComponentLinks::default()
RSGComponentLinks_default ==
    [transform_key |-> None, opacity_key |-> None, material_key |-> None,
     mesh_key |-> None, layer_key |-> None]

\* f32 opacities are modelled in units of 1/OpacityOne; the values the
\* model uses are powers of two whose products are exact in both
OpacityOne == 256

\* a * b of two f32 opacities
f32_mul(a, b) == (a * b) \div OpacityOne

RSGOpacityComponent_new(opacity) == [opacity |-> opacity, inherited_opacity |-> opacity]

RSGMaterialComponent_new == [material |-> TRUE]

RSGMeshComponent_new == [mesh |-> TRUE]

\* slotmap::SecondaryMap: a slot per index of the primary map, holding the
\* version of the key it was inserted with (0 while empty) and the value
SecondaryMap_new == [i \in Slots |-> [version |-> 0, value |-> None]]

\* SecondaryMap::insert: a key older than the slot's is ignored
sec_insert(sec, k, value) ==
    IF sec[k[1]].version > k[2] THEN sec
    ELSE [sec EXCEPT ![k[1]] = [version |-> k[2], value |-> value]]

\* SecondaryMap::contains_key / get(..).is_some()
sec_contains(sec, k) == k # None /\ sec[k[1]].version = k[2]

\* material_data[key], mesh_data.get(key).unwrap()
sec_get(sec, k) == sec[k[1]].value

\* RSGComponentContainer::default()
RSGComponentContainer_default ==
    [transforms |-> SlotMap_new, opacities |-> SlotMap_new,
     materials |-> SlotMap_new, material_data |-> SecondaryMap_new,
     meshes |-> SlotMap_new, mesh_data |-> SecondaryMap_new,
     layers |-> SlotMap_new]

\* list[key] of a component list
sm_get(sm, k) == sm.slots[k[1]].value

\* RSGComponentBuilder: [links, container]
RSGComponentBuilder_new(container) ==
    [links |-> RSGComponentLinks_default, container |-> container]

RSGComponentBuilder_transform(b, local_transform) ==
    [links |-> [b.links EXCEPT !.transform_key = sm_insert_key(b.container.transforms)],
     container |-> [b.container EXCEPT
                      !.transforms = sm_insert(@, RSGTransformComponent_new(local_transform))]]

RSGComponentBuilder_opacity(b, opacity) ==
    [links |-> [b.links EXCEPT !.opacity_key = sm_insert_key(b.container.opacities)],
     container |-> [b.container EXCEPT
                      !.opacities = sm_insert(@, RSGOpacityComponent_new(opacity))]]

RSGComponentBuilder_material(b, material) ==
    [links |-> [b.links EXCEPT !.material_key = sm_insert_key(b.container.materials)],
     container |-> [b.container EXCEPT
                      !.materials = sm_insert(@, RSGMaterialComponent_new),
                      !.material_data = sec_insert(@, sm_insert_key(b.container.materials),
                                                   material)]]

RSGComponentBuilder_mesh(b, mesh) ==
    [links |-> [b.links EXCEPT !.mesh_key = sm_insert_key(b.container.meshes)],
     container |-> [b.container EXCEPT
                      !.meshes = sm_insert(@, RSGMeshComponent_new),
                      !.mesh_data = sec_insert(@, sm_insert_key(b.container.meshes), mesh)]]

RSGComponentBuilder_layer(b) ==
    [links |-> [b.links EXCEPT !.layer_key = sm_insert_key(b.container.layers)],
     container |-> [b.container EXCEPT !.layers = sm_insert(@, RSGLayerComponent_new)]]

\* list.remove(key) of a component list: nothing happens for a key the list
\* does not hold
RSGComponentContainer_remove_key(sm, key) ==
    IF key # None /\ sm_contains(sm, key) THEN sm_remove(sm, key) ELSE sm

\* RSGComponentContainer::remove
RSGComponentContainer_remove(c, component_links) ==
    [c EXCEPT
       !.transforms = RSGComponentContainer_remove_key(@, component_links.transform_key),
       !.opacities = RSGComponentContainer_remove_key(@, component_links.opacity_key),
       !.materials = RSGComponentContainer_remove_key(@, component_links.material_key),
       !.meshes = RSGComponentContainer_remove_key(@, component_links.mesh_key),
       !.layers = RSGComponentContainer_remove_key(@, component_links.layer_key)]

\* RSGScene::get_component_links
get_component_links(s, node_key) == Node(s, node_key).comp_links

RECURSIVE update_world_transforms_ancestors(_, _, _, _)
\* the loop over the ancestors with the ancestor's matrix on the left
update_world_transforms_ancestors_swapped(transforms, s, anc, world_transform) ==
    IF anc = <<>> THEN world_transform
    ELSE IF get_component_links(s, Head(anc)).transform_key # None
    THEN Mat4_mul(sm_get(transforms,
                         get_component_links(s, Head(anc)).transform_key).world_transform,
                  world_transform)
    ELSE IF get_component_links(s, Head(anc)).layer_key # None
    THEN world_transform
    ELSE update_world_transforms_ancestors(transforms, s, Tail(anc), world_transform)

\* update_world_transforms, the loop over scene.ancestors(key): the first
\* ancestor with a transform is multiplied in on the right and ends the
\* loop; a layer without a transform ends it too
update_world_transforms_ancestors(transforms, s, anc, world_transform) ==
    IF anc = <<>> THEN world_transform
    ELSE IF get_component_links(s, Head(anc)).transform_key # None
    THEN Mat4_mul(world_transform,
                  sm_get(transforms,
                         get_component_links(s, Head(anc)).transform_key).world_transform)
    ELSE IF get_component_links(s, Head(anc)).layer_key # None
    THEN world_transform
    ELSE update_world_transforms_ancestors(transforms, s, Tail(anc), world_transform)

\* the body of the traversal loop for one node
update_world_transforms_node(transforms, s, key, transform_key) ==
    IF transform_key # None
    THEN [transforms EXCEPT !.slots[transform_key[1]].value.world_transform =
             update_world_transforms_ancestors(
                 transforms, s, ancestors(s, key),
                 sm_get(transforms, transform_key).local_transform)]
    ELSE transforms

\* the loop over scene.traverse(subtree_root_key), nodes being what is left of it
RECURSIVE update_world_transforms_subtree(_, _, _)
update_world_transforms_subtree(transforms, s, nodes) ==
    IF nodes = <<>> THEN transforms
    ELSE update_world_transforms_subtree(
             update_world_transforms_node(
                 transforms, s, Head(nodes)[1],
                 get_component_links(s, Head(nodes)[1]).transform_key),
             s, Tail(nodes))

RECURSIVE update_world_transforms(_, _, _)
\* a pass that stops after the first root
update_world_transforms_first_root(transforms, s, subtree_roots) ==
    IF subtree_roots = <<>> THEN transforms
    ELSE update_world_transforms_subtree(transforms, s, traverse(s, Head(subtree_roots)))

update_world_transforms(transforms, s, subtree_roots) ==
    IF subtree_roots = <<>> THEN transforms
    ELSE update_world_transforms(
             update_world_transforms_subtree(transforms, s, traverse(s, Head(subtree_roots))),
             s, Tail(subtree_roots))

RECURSIVE update_inherited_opacities_ancestors(_, _, _, _)
\* the loop over the ancestors that multiplies by the ancestor's own opacity
update_inherited_opacities_ancestors_own(opacities, s, anc, inherited_opacity) ==
    IF anc = <<>> THEN inherited_opacity
    ELSE IF get_component_links(s, Head(anc)).opacity_key # None
    THEN f32_mul(inherited_opacity,
                 sm_get(opacities, get_component_links(s, Head(anc)).opacity_key).opacity)
    ELSE IF get_component_links(s, Head(anc)).layer_key # None
    THEN inherited_opacity
    ELSE update_inherited_opacities_ancestors(opacities, s, Tail(anc), inherited_opacity)

\* update_inherited_opacities, the loop over scene.ancestors(key): the first
\* ancestor with an opacity is multiplied in and ends the loop; a layer
\* without an opacity ends it too
update_inherited_opacities_ancestors(opacities, s, anc, inherited_opacity) ==
    IF anc = <<>> THEN inherited_opacity
    ELSE IF get_component_links(s, Head(anc)).opacity_key # None
    THEN f32_mul(inherited_opacity,
                 sm_get(opacities,
                        get_component_links(s, Head(anc)).opacity_key).inherited_opacity)
    ELSE IF get_component_links(s, Head(anc)).layer_key # None
    THEN inherited_opacity
    ELSE update_inherited_opacities_ancestors(opacities, s, Tail(anc), inherited_opacity)

\* the body of the traversal loop for one node
update_inherited_opacities_node(opacities, s, key, opacity_key) ==
    IF opacity_key # None
    THEN [opacities EXCEPT !.slots[opacity_key[1]].value.inherited_opacity =
             update_inherited_opacities_ancestors(
                 opacities, s, ancestors(s, key),
                 sm_get(opacities, opacity_key).opacity)]
    ELSE opacities

\* the loop over scene.traverse(subtree_root_key), nodes being what is left of it
RECURSIVE update_inherited_opacities_subtree(_, _, _)
update_inherited_opacities_subtree(opacities, s, nodes) ==
    IF nodes = <<>> THEN opacities
    ELSE update_inherited_opacities_subtree(
             update_inherited_opacities_node(
                 opacities, s, Head(nodes)[1],
                 get_component_links(s, Head(nodes)[1]).opacity_key),
             s, Tail(nodes))

RECURSIVE update_inherited_opacities(_, _, _)
update_inherited_opacities(opacities, s, subtree_roots) ==
    IF subtree_roots = <<>> THEN opacities
    ELSE update_inherited_opacities(
             update_inherited_opacities_subtree(opacities, s,
                                                traverse(s, Head(subtree_roots))),
             s, Tail(subtree_roots))

----------------------------------------------------------------------------
(* RSGSceneObserver, the canonical observer (components.rs).  Flags are u32 *)
(* values, a bit being one of 1, 2, 4, 8, 16.                               *)

RSGDirtyFlags_TRANSFORM == 1
RSGDirtyFlags_OPACITY == 2
RSGDirtyFlags_MATERIAL == 4
RSGDirtyFlags_MATERIAL_VALUES == 8
RSGDirtyFlags_MESH == 16

\* whether the bit is set in the u32 f
HasBit(f, bit) == (f \div bit) % 2 = 1

\* RSGDirtyFlags::from_bits(f).is_some(): no bit outside the five is set
from_bits_is_some(f) == f \div 32 = 0

\* RSGSceneObserver::new()
RSGSceneObserver_new ==
    [changed |-> FALSE, hierarchy_changed |-> FALSE,
     dirty_world_roots |-> <<>>, dirty_opacity_roots |-> <<>>,
     dirty_material_nodes |-> <<>>, dirty_material_value_nodes |-> <<>>,
     dirty_mesh_nodes |-> <<>>]

\* the arm of SubtreeAddedOrReattached(key)
RSGSceneObserver_notify_added(o, key) ==
    [o EXCEPT !.hierarchy_changed = TRUE,
              !.dirty_world_roots = Append(@, key),
              !.dirty_opacity_roots = Append(@, key),
              !.dirty_material_nodes = Append(@, key),
              !.dirty_material_value_nodes = Append(@, key),
              !.dirty_mesh_nodes = Append(@, key)]

\* the arm of Dirty(key, f): the match on from_bits(f) takes the first arm
\* whose guard holds, and that arm only
RSGSceneObserver_notify_dirty(o, key, f) ==
    IF ~ from_bits_is_some(f) THEN o
    ELSE IF HasBit(f, RSGDirtyFlags_TRANSFORM)
    THEN [o EXCEPT !.dirty_world_roots = Append(@, key)]
    ELSE IF HasBit(f, RSGDirtyFlags_OPACITY)
    THEN [o EXCEPT !.dirty_opacity_roots = Append(@, key)]
    ELSE IF HasBit(f, RSGDirtyFlags_MATERIAL)
    THEN [o EXCEPT !.dirty_material_nodes = Append(@, key)]
    ELSE IF HasBit(f, RSGDirtyFlags_MATERIAL_VALUES)
    THEN [o EXCEPT !.dirty_material_value_nodes = Append(@, key)]
    ELSE IF HasBit(f, RSGDirtyFlags_MESH)
    THEN [o EXCEPT !.dirty_mesh_nodes = Append(@, key)]
    ELSE o

\* a match whose arm for SubtreeAboutToBeRemoved does nothing
RSGSceneObserver_notify_match_removed_unseen(o, event) ==
    IF event.type = "SubtreeAddedOrReattached"
    THEN RSGSceneObserver_notify_added(o, event.key)
    ELSE IF event.type = "Dirty"
    THEN RSGSceneObserver_notify_dirty(o, event.key, event.flags)
    ELSE o

\* match event { .. }
RSGSceneObserver_notify_match(o, event) ==
    IF event.type = "SubtreeAddedOrReattached"
    THEN RSGSceneObserver_notify_added(o, event.key)
    ELSE IF event.type = "SubtreeAboutToBeRemoved"
    THEN [o EXCEPT !.hierarchy_changed = TRUE]
    ELSE IF event.type = "Dirty"
    THEN RSGSceneObserver_notify_dirty(o, event.key, event.flags)
    ELSE o

\* RSGSceneObserver::notify
RSGSceneObserver_notify(o, event) ==
    RSGSceneObserver_notify_match([o EXCEPT !.changed = TRUE], event)

\* RSGSceneObserver::reset
RSGSceneObserver_reset(o) ==
    [o EXCEPT !.changed = FALSE, !.hierarchy_changed = FALSE,
              !.dirty_world_roots = <<>>, !.dirty_opacity_roots = <<>>,
              !.dirty_material_nodes = <<>>, !.dirty_material_value_nodes = <<>>,
              !.dirty_mesh_nodes = <<>>]

----------------------------------------------------------------------------
(* Render lists (build_render_lists).  Space is modelled along the z axis:  *)
(* a local matrix <<d>> is the translation by d, the world matrix a word    *)
(* whose letters add up to the node's z, a mesh's bounds are the z of their *)
(* centre, a camera is [position, direction] with direction 1 or -1.        *)

\* RSGContainer::is_opaque
is_opaque(c, comp_links) ==
    /\ ~ (/\ comp_links.opacity_key # None
          /\ sm_get(c.opacities, comp_links.opacity_key).inherited_opacity < OpacityOne)
    /\ ~ (/\ comp_links.material_key # None
          /\ sec_get(c.material_data, comp_links.material_key).blend_enable)

\* the z of the translation a world matrix stands for
RECURSIVE Mat4_z(_)
Mat4_z(m) == IF m = <<>> THEN 0 ELSE Head(m) + Mat4_z(Tail(m))

\* calculate_sorting_distance: dot(world * centre - position, direction)
calculate_sorting_distance(world_transform, bounds, camera_properties) ==
    (Mat4_z(world_transform) + bounds - camera_properties.position)
        * camera_properties.direction

\* Vec::insert(pos, e)
vec_insert(list, pos, e) ==
    SubSeq(list, 1, pos) \o <<e>> \o SubSeq(list, pos + 1, Len(list))

\* the elements of a list ordered as ord says (1 ascending, -1 descending)
\* that binary_search_by finds equal to sort_dist
binary_search_matches(list, sort_dist, ord) ==
    {i \in 1..Len(list) : list[i][2] = sort_dist}

\* the number of elements that come before sort_dist in the order of the list
binary_search_before(list, sort_dist, ord) ==
    Cardinality({i \in 1..Len(list) : ord * list[i][2] < ord * sort_dist})

\* the n-th smallest member of a set of numbers, n counted from 0
RECURSIVE nth_of(_, _)
nth_of(set, n) ==
    IF n = 0 THEN CHOOSE i \in set : \A j \in set : i <= j
    ELSE nth_of(set \ {CHOOSE i \in set : \A j \in set : i <= j}, n - 1)

\* list.binary_search_by(..).unwrap_or_else(|i| i), as a 0-based position:
\* Ok(i) for one of the equal elements, which one being the library's
\* choice (tie picks it), else Err(i) for the place that keeps the order
binary_search_pos(list, sort_dist, ord, tie) ==
    IF binary_search_matches(list, sort_dist, ord) # {}
    THEN nth_of(binary_search_matches(list, sort_dist, ord),
                tie % Cardinality(binary_search_matches(list, sort_dist, ord))) - 1
    ELSE binary_search_before(list, sort_dist, ord)

\* the 3D branch that pushes at the end
build_render_lists_3d_pushing(c, key, comp_links, sort_dist, r, tie) ==
    IF is_opaque(c, comp_links)
    THEN [r EXCEPT !.opaque_list = Append(@, <<key, sort_dist>>)]
    ELSE [r EXCEPT !.alpha_list = Append(@, <<key, sort_dist>>)]

\* the 3D branch for one mesh node: binary insertion, the opaque list
\* ascending (front to back), the alpha list descending (back to front)
build_render_lists_3d(c, key, comp_links, sort_dist, r, tie) ==
    IF is_opaque(c, comp_links)
    THEN [r EXCEPT !.opaque_list =
             vec_insert(@, binary_search_pos(@, sort_dist, 1, tie), <<key, sort_dist>>)]
    ELSE [r EXCEPT !.alpha_list =
             vec_insert(@, binary_search_pos(@, sort_dist, -1, tie), <<key, sort_dist>>)]

\* the 2D branch for one mesh node: push with the stacking counter
build_render_lists_2d(c, key, comp_links, r) ==
    IF is_opaque(c, comp_links)
    THEN [r EXCEPT !.opaque_list = Append(@, <<key, r.stacking_order_2d>>),
                   !.stacking_order_2d = @ + 1]
    ELSE [r EXCEPT !.alpha_list = Append(@, <<key, r.stacking_order_2d>>),
                   !.stacking_order_2d = @ + 1]

\* the body of the traversal loop for a node with a mesh
build_render_lists_mesh(c, key, comp_links, camera_properties_3d, r, tie) ==
    IF camera_properties_3d # None
    THEN build_render_lists_3d(
             c, key, comp_links,
             calculate_sorting_distance(
                 sm_get(c.transforms, comp_links.transform_key).world_transform,
                 sec_get(c.mesh_data, comp_links.mesh_key).bounds_3d,
                 camera_properties_3d),
             r, tie)
    ELSE build_render_lists_2d(c, key, comp_links, r)

\* the body of the traversal loop for one node
build_render_lists_node(c, key, comp_links, camera_properties_3d, r, tie) ==
    IF comp_links.mesh_key # None
    THEN build_render_lists_mesh(c, key, comp_links, camera_properties_3d, r, tie)
    ELSE r

RECURSIVE build_render_lists_loop(_, _, _, _, _, _, _)
\* the traversal loop that goes on after a layer node
build_render_lists_loop_through(c, s, start_node_key, camera_properties_3d, nodes, r, tie) ==
    IF nodes = <<>> THEN r
    ELSE build_render_lists_loop(
             c, s, start_node_key, camera_properties_3d, Tail(nodes),
             build_render_lists_node(c, Head(nodes)[1],
                                     get_component_links(s, Head(nodes)[1]),
                                     camera_properties_3d, r, tie),
             tie)

\* the loop over scene.traverse(start_node_key), nodes being what is left of
\* it: a node other than the start that has a layer is handled and ends it
build_render_lists_loop(c, s, start_node_key, camera_properties_3d, nodes, r, tie) ==
    IF nodes = <<>> THEN r
    ELSE IF /\ get_component_links(s, Head(nodes)[1]).layer_key # None
            /\ Head(nodes)[1] # start_node_key
    THEN build_render_lists_node(c, Head(nodes)[1],
                                 get_component_links(s, Head(nodes)[1]),
                                 camera_properties_3d, r, tie)
    ELSE build_render_lists_loop(
             c, s, start_node_key, camera_properties_3d, Tail(nodes),
             build_render_lists_node(c, Head(nodes)[1],
                                     get_component_links(s, Head(nodes)[1]),
                                     camera_properties_3d, r, tie),
             tie)

\* an end of build_render_lists that leaves the opaque list as pushed
build_render_lists_finish_unreversed(camera_properties_3d, r) ==
    [opaque_list |-> r.opaque_list, alpha_list |-> r.alpha_list]

\* the end of build_render_lists: in 2D the opaque list is reversed
build_render_lists_finish(camera_properties_3d, r) ==
    [opaque_list |-> IF camera_properties_3d = None
                     THEN [i \in 1..Len(r.opaque_list) |->
                              r.opaque_list[Len(r.opaque_list) + 1 - i]]
                     ELSE r.opaque_list,
     alpha_list |-> r.alpha_list]

\* the two passes build_render_lists schedules; the traversal takes their
\* results before it first needs them, and at the end otherwise
build_render_lists_updated(components_, s, dirty_world_roots, dirty_opacity_roots) ==
    [components_ EXCEPT
        !.opacities = IF dirty_opacity_roots # <<>>
                      THEN update_inherited_opacities(@, s, dirty_opacity_roots) ELSE @,
        !.transforms = IF dirty_world_roots # <<>>
                       THEN update_world_transforms(@, s, dirty_world_roots) ELSE @]

\* a build_render_lists that keeps what the lists held
build_render_lists_lists_kept(c, s, start_node_key, camera_properties_3d, lists, tie) ==
    build_render_lists_finish(
        camera_properties_3d,
        build_render_lists_loop(
            c, s, start_node_key, camera_properties_3d, traverse(s, start_node_key),
            [opaque_list |-> lists.opaque_list, alpha_list |-> lists.alpha_list,
             stacking_order_2d |-> 0],
            tie))

\* the lists build_render_lists leaves: cleared, filled by the traversal
build_render_lists_lists(c, s, start_node_key, camera_properties_3d, lists, tie) ==
    build_render_lists_finish(
        camera_properties_3d,
        build_render_lists_loop(
            c, s, start_node_key, camera_properties_3d, traverse(s, start_node_key),
            [opaque_list |-> <<>>, alpha_list |-> <<>>, stacking_order_2d |-> 0],
            tie))

----------------------------------------------------------------------------
(* The state machine: one action per public operation of RSGScene.  An      *)
(* action is enabled when the operation's asserts, debug_asserts and        *)
(* unwraps pass, and when the bounds leave room for the slot it allocates.  *)
(* A caller makes each node with component links of its own, as the tests  *)
(* do.  A key argument is drawn from the keys in the arena.                 *)

\* the component links the caller gives the node that will get key k
LinksFor(k) == 10 * k[1] + k[2]

\* the node a caller passes in: RSGNode::with_component_links(..)
NewNode(sm) == with_component_links(LinksFor(sm_insert_key(sm)))

\* the scene an operation starts from; the observer's record starts empty
Scene == [arena |-> arena, root_key |-> root_key, observer |-> <<>>, ok |-> asserts_ok,
          has_observer |-> has_observer]

\* the state after an operation that left scene s, transaction txn,
\* component container container and the render lists in lists
BecomesWith(s, txn, container, lists, op, arg, key, ret_links, entries) ==
    /\ arena' = s.arena
    /\ root_key' = s.root_key
    /\ observer' = s.observer
    /\ asserts_ok' = s.ok
    /\ transaction' = txn
    /\ freed' = freed \cup (sm_keys(arena) \ sm_keys(s.arena))
    /\ has_observer' = s.has_observer
    /\ components' = container
    /\ opaque_list' = lists.opaque_list
    /\ alpha_list' = lists.alpha_list
    /\ UNCHANGED <<scene_observer, received, debug_assertions, call>>
    /\ last' = [op |-> op, arg |-> arg, key |-> key, links |-> ret_links,
                entries |-> entries]

\* the state after an operation that has no render lists in its hands
BecomesIn(s, txn, container, op, arg, key, ret_links, entries) ==
    BecomesWith(s, txn, container, [opaque_list |-> opaque_list, alpha_list |-> alpha_list],
                op, arg, key, ret_links, entries)

\* the state after a scene operation: the component container is not its business
Becomes(s, txn, op, arg, key, ret_links, entries) ==
    BecomesIn(s, txn, components, op, arg, key, ret_links, entries)

\* after an operation that returned [scene, transaction]
BecomesStaged(r, op, arg, key) ==
    Becomes(r.scene, r.transaction, op, arg, key, <<>>, <<>>)

\* after an operation that returned [scene, comp_links]
BecomesRemoved(r, op, arg) ==
    Becomes(r.scene, transaction, op, arg, None, <<r.comp_links>>, <<>>)

\* after an operation that returned [scene, component_links]
BecomesCleared(r, op, arg) ==
    Becomes(r.scene, transaction, op, arg, None, r.component_links, <<>>)

\* RSGScene::new() with an observer set by set_observer(..)
Init ==
    /\ arena = SlotMap_new
    /\ root_key = None
    /\ observer = <<>>
    /\ asserts_ok = TRUE
    /\ transaction = RSGSubtreeAddTransaction_new
    /\ freed = {}
    /\ has_observer = TRUE
    /\ components = RSGComponentContainer_default
    /\ opaque_list = <<>>
    /\ alpha_list = <<>>
    /\ scene_observer = RSGSceneObserver_new
    /\ received = <<>>
    /\ debug_assertions = TRUE
    /\ call = NoCall
    /\ last = [op |-> "new", arg |-> None, key |-> None, links |-> <<>>,
               entries |-> <<>>]

SetRoot ==
    /\ asserts_ok
    /\ sm_has_room(arena)
    /\ root_key = None
    /\ is_clean(NewNode(arena))
    /\ Becomes(set_root(Scene, NewNode(arena)), transaction,
               "set_root", None, sm_insert_key(arena), <<>>, <<>>)

AppendNode(parent_key) ==
    /\ asserts_ok
    /\ sm_has_room(arena)
    /\ is_clean(NewNode(arena)) /\ is_valid(Scene, parent_key)
    /\ Becomes(append(Scene, parent_key, NewNode(arena)), transaction,
               "append", parent_key, sm_insert_key(arena), <<>>, <<>>)

PrependNode(parent_key) ==
    /\ asserts_ok
    /\ sm_has_room(arena)
    /\ is_clean(NewNode(arena)) /\ is_valid(Scene, parent_key)
    /\ Becomes(prepend(Scene, parent_key, NewNode(arena)), transaction,
               "prepend", parent_key, sm_insert_key(arena), <<>>, <<>>)

InsertBefore(before_key) ==
    /\ asserts_ok
    /\ sm_has_room(arena)
    /\ root_key # None /\ before_key # root_key
    /\ is_clean(NewNode(arena)) /\ is_valid(Scene, before_key)
    /\ Becomes(insert_before(Scene, before_key, NewNode(arena)), transaction,
               "insert_before", before_key, sm_insert_key(arena), <<>>, <<>>)

InsertAfter(after_key) ==
    /\ asserts_ok
    /\ sm_has_room(arena)
    /\ root_key # None /\ after_key # root_key
    /\ is_clean(NewNode(arena)) /\ is_valid(Scene, after_key)
    /\ Becomes(insert_after(Scene, after_key, NewNode(arena)), transaction,
               "insert_after", after_key, sm_insert_key(arena), <<>>, <<>>)

AppendWithTransaction(parent_key) ==
    /\ asserts_ok
    /\ sm_has_room(arena)
    /\ record_add_transaction_asserts(Scene, parent_key, NewNode(arena), transaction)
    /\ BecomesStaged(append_with_transaction(Scene, parent_key, NewNode(arena), transaction),
                     "append_with_transaction", parent_key, sm_insert_key(arena))

PrependWithTransaction(parent_key) ==
    /\ asserts_ok
    /\ sm_has_room(arena)
    /\ record_add_transaction_asserts(Scene, parent_key, NewNode(arena), transaction)
    /\ BecomesStaged(prepend_with_transaction(Scene, parent_key, NewNode(arena), transaction),
                     "prepend_with_transaction", parent_key, sm_insert_key(arena))

\* commit consumes the transaction; the next staging starts from a new one
Commit ==
    /\ asserts_ok
    /\ commit_unwraps(Scene, transaction)
    /\ Becomes(commit(Scene, transaction), RSGSubtreeAddTransaction_new,
               "commit", None, None, <<>>, transaction.entries)

Rollback ==
    /\ asserts_ok
    /\ Becomes(rollback(Scene, transaction), RSGSubtreeAddTransaction_new,
               "rollback", None, None, <<>>, transaction.entries)

Remove(node_key) ==
    /\ asserts_ok
    /\ remove_helper_asserts(Scene, node_key)
    /\ is_valid(Scene, node_key)
    /\ BecomesRemoved(remove(Scene, node_key), "remove", node_key)

RemoveWithoutChildren(node_key) ==
    /\ asserts_ok
    /\ remove_helper_asserts(Scene, node_key)
    /\ is_valid(Scene, node_key)
    /\ BecomesRemoved(remove_without_children(Scene, node_key),
                      "remove_without_children", node_key)

RemoveChildren(node_key) ==
    /\ asserts_ok
    /\ is_valid(Scene, node_key)
    /\ BecomesCleared(remove_children(Scene, node_key), "remove_children", node_key)

Clear ==
    /\ asserts_ok
    /\ BecomesCleared(clear(Scene), "clear", None)

InsertUnder(parent_key) ==
    /\ asserts_ok
    /\ sm_has_room(arena)
    /\ is_clean(NewNode(arena)) /\ is_valid(Scene, parent_key)
    /\ Becomes(insert_under(Scene, parent_key, NewNode(arena)), transaction,
               "insert_under", parent_key, sm_insert_key(arena), <<>>, <<>>)

Next ==
    \/ SetRoot
    \/ \E k \in sm_keys(arena) : AppendNode(k)
    \/ \E k \in sm_keys(arena) : PrependNode(k)
    \/ \E k \in sm_keys(arena) : InsertBefore(k)
    \/ \E k \in sm_keys(arena) : InsertAfter(k)
    \/ \E k \in sm_keys(arena) : AppendWithTransaction(k)
    \/ \E k \in sm_keys(arena) : PrependWithTransaction(k)
    \/ Commit
    \/ Rollback
    \/ \E k \in sm_keys(arena) : Remove(k)
    \/ \E k \in sm_keys(arena) : RemoveWithoutChildren(k)
    \/ \E k \in sm_keys(arena) : RemoveChildren(k)
    \/ Clear
    \/ \E k \in sm_keys(arena) : InsertUnder(k)

Spec == Init /\ [][Next]_vars

----------------------------------------------------------------------------
(* The scene with and without an observer: RSGScene::new() leaves observer  *)
(* None; set_observer and take_observer install and remove it; mark_dirty   *)
(* and the single-node operations run either way.                           *)

\* the flag words a caller passes to mark_dirty: none, two bits, thirty-one bits
DirtyFlagValues == {0, 6, 2147483647}

InitNoObserver ==
    /\ arena = SlotMap_new
    /\ root_key = None
    /\ observer = <<>>
    /\ asserts_ok = TRUE
    /\ transaction = RSGSubtreeAddTransaction_new
    /\ freed = {}
    /\ has_observer = FALSE
    /\ components = RSGComponentContainer_default
    /\ opaque_list = <<>>
    /\ alpha_list = <<>>
    /\ scene_observer = RSGSceneObserver_new
    /\ received = <<>>
    /\ debug_assertions = TRUE
    /\ call = NoCall
    /\ last = [op |-> "new", arg |-> None, key |-> None, links |-> <<>>,
               entries |-> <<>>]

SetObserver ==
    /\ asserts_ok
    /\ Becomes([Scene EXCEPT !.has_observer = TRUE], transaction,
               "set_observer", None, None, <<>>, <<>>)

TakeObserver ==
    /\ asserts_ok
    /\ Becomes([Scene EXCEPT !.has_observer = FALSE], transaction,
               "take_observer", None, None, <<>>, <<>>)

\* mark_dirty takes any key, one whose node is gone included
MarkDirty(node_key, flags) ==
    /\ asserts_ok
    /\ Becomes(mark_dirty(Scene, node_key, flags), transaction,
               "mark_dirty", <<node_key, flags>>, None, <<>>, <<>>)

NextObserver ==
    \/ SetObserver
    \/ TakeObserver
    \/ SetRoot
    \/ \E k \in sm_keys(arena) : AppendNode(k)
    \/ \E k \in sm_keys(arena) : PrependNode(k)
    \/ \E k \in sm_keys(arena) : InsertBefore(k)
    \/ \E k \in sm_keys(arena) : InsertAfter(k)
    \/ \E k \in sm_keys(arena) : Remove(k)
    \/ \E k \in sm_keys(arena) \cup freed : \E f \in DirtyFlagValues : MarkDirty(k, f)

SpecObserver == InitNoObserver /\ [][NextObserver]_vars

----------------------------------------------------------------------------
(* The transform pass: a tree is built of nodes with or without a transform *)
(* and a layer, each transform with a local matrix of its own, and          *)
(* update_world_transforms runs over lists of dirty subtree roots.          *)

\* Number of dirty subtree roots handed to one pass.
MaxDirtyRoots == 1

\* the number of nodes the scene of the transform pass grows to
MaxLinkedNodes == 3

\* the local matrix of the transform that will get key k
LocalFor(k) == <<k[1]>>

\* RSGComponentBuilder::new(container) with .transform(..) and .layer() as asked
BuildLinks_layer(b, with_layer) ==
    IF with_layer THEN RSGComponentBuilder_layer(b) ELSE b

BuildLinks(container, with_transform, with_layer) ==
    BuildLinks_layer(
        IF with_transform
        THEN RSGComponentBuilder_transform(RSGComponentBuilder_new(container),
                                           LocalFor(sm_insert_key(container.transforms)))
        ELSE RSGComponentBuilder_new(container),
        with_layer)

SetRootLinked(with_transform, with_layer) ==
    /\ asserts_ok
    /\ sm_has_room(arena)
    /\ root_key = None
    /\ BecomesIn(set_root(Scene, with_component_links(
                              BuildLinks(components, with_transform, with_layer).links)),
                 transaction, BuildLinks(components, with_transform, with_layer).container,
                 "set_root", None, sm_insert_key(arena), <<>>, <<>>)

AppendLinked(parent_key, with_transform, with_layer) ==
    /\ asserts_ok
    /\ sm_has_room(arena)
    /\ node_count(Scene) < MaxLinkedNodes
    /\ is_valid(Scene, parent_key)
    /\ BecomesIn(append(Scene, parent_key, with_component_links(
                            BuildLinks(components, with_transform, with_layer).links)),
                 transaction, BuildLinks(components, with_transform, with_layer).container,
                 "append", parent_key, sm_insert_key(arena), <<>>, <<>>)

\* the lists of dirty subtree roots a pass may get
DirtyRootLists(keys) == UNION {[1..n -> keys] : n \in 1..MaxDirtyRoots}

UpdateWorldTransforms(subtree_roots) ==
    /\ asserts_ok
    /\ \A i \in 1..Len(subtree_roots) : is_valid(Scene, subtree_roots[i])
    /\ BecomesIn(Scene, transaction,
                 [components EXCEPT !.transforms =
                     update_world_transforms(@, Scene, subtree_roots)],
                 "update_world_transforms", subtree_roots, None, <<>>, <<>>)

NextTransforms ==
    \/ \E t \in BOOLEAN : \E l \in BOOLEAN : SetRootLinked(t, l)
    \/ \E k \in sm_keys(arena) : \E t \in BOOLEAN : \E l \in BOOLEAN : AppendLinked(k, t, l)
    \/ \E roots \in DirtyRootLists(sm_keys(arena)) : UpdateWorldTransforms(roots)

SpecTransforms == Init /\ [][NextTransforms]_vars

----------------------------------------------------------------------------
(* The opacity pass: a tree is built of nodes with or without an opacity    *)
(* and a layer, and update_inherited_opacities runs over lists of dirty     *)
(* subtree roots.                                                           *)

\* the opacity of the component that will get key k: 0.5 in the odd slots,
\* 0.25 in the even ones
OpacityFor(k) == IF k[1] % 2 = 1 THEN OpacityOne \div 2 ELSE OpacityOne \div 4

\* RSGComponentBuilder::new(container) with .opacity(..) and .layer() as asked
BuildLinksOpacity(container, with_opacity, with_layer) ==
    BuildLinks_layer(
        IF with_opacity
        THEN RSGComponentBuilder_opacity(RSGComponentBuilder_new(container),
                                         OpacityFor(sm_insert_key(container.opacities)))
        ELSE RSGComponentBuilder_new(container),
        with_layer)

SetRootOpacity(with_opacity, with_layer) ==
    /\ asserts_ok
    /\ sm_has_room(arena)
    /\ root_key = None
    /\ BecomesIn(set_root(Scene, with_component_links(
                              BuildLinksOpacity(components, with_opacity, with_layer).links)),
                 transaction,
                 BuildLinksOpacity(components, with_opacity, with_layer).container,
                 "set_root", None, sm_insert_key(arena), <<>>, <<>>)

AppendOpacity(parent_key, with_opacity, with_layer) ==
    /\ asserts_ok
    /\ sm_has_room(arena)
    /\ node_count(Scene) < MaxLinkedNodes
    /\ is_valid(Scene, parent_key)
    /\ BecomesIn(append(Scene, parent_key, with_component_links(
                            BuildLinksOpacity(components, with_opacity, with_layer).links)),
                 transaction,
                 BuildLinksOpacity(components, with_opacity, with_layer).container,
                 "append", parent_key, sm_insert_key(arena), <<>>, <<>>)

UpdateInheritedOpacities(subtree_roots) ==
    /\ asserts_ok
    /\ \A i \in 1..Len(subtree_roots) : is_valid(Scene, subtree_roots[i])
    /\ BecomesIn(Scene, transaction,
                 [components EXCEPT !.opacities =
                     update_inherited_opacities(@, Scene, subtree_roots)],
                 "update_inherited_opacities", subtree_roots, None, <<>>, <<>>)

NextOpacity ==
    \/ \E o \in BOOLEAN : \E l \in BOOLEAN : SetRootOpacity(o, l)
    \/ \E k \in sm_keys(arena) : \E o \in BOOLEAN : \E l \in BOOLEAN : AppendOpacity(k, o, l)
    \/ \E roots \in DirtyRootLists(sm_keys(arena)) : UpdateInheritedOpacities(roots)

SpecOpacity == Init /\ [][NextOpacity]_vars

----------------------------------------------------------------------------
(* The canonical observer on its own: it is notified of events of every     *)
(* kind, in any order, and reset.                                           *)

\* Number of events the observer receives between two resets.
MaxEvents == 2

\* the flags of the Dirty events: none, each bit, two bits, two other bits,
\* all five, a bit outside the five, and such a bit with one of the five
ObserverFlagValues == {0, 1, 2, 4, 8, 16, 3, 24, 31, 32, 33}

\* the keys of the events
ObserverKeys == {<<1, 1>>, <<2, 1>>}

\* the events the observer is notified of
ObserverEvents ==
    {SubtreeAddedOrReattached(k) : k \in ObserverKeys}
    \cup {SubtreeAboutToBeRemoved(k) : k \in ObserverKeys}
    \cup {SubtreeAboutToBeTemporarilyDetached(k) : k \in ObserverKeys}
    \cup {Dirty(k, f) : k \in ObserverKeys, f \in ObserverFlagValues}

\* what an operation on the canonical observer leaves alone
scene_vars == <<arena, root_key, observer, transaction, asserts_ok, freed, has_observer,
                components, opaque_list, alpha_list, debug_assertions, call>>

ObserverNotify(event) ==
    /\ Len(received) < MaxEvents
    /\ scene_observer' = RSGSceneObserver_notify(scene_observer, event)
    /\ received' = Append(received, event)
    /\ last' = [op |-> "notify", arg |-> event, key |-> None, links |-> <<>>,
                entries |-> <<>>]
    /\ UNCHANGED scene_vars

ObserverReset ==
    /\ scene_observer' = RSGSceneObserver_reset(scene_observer)
    /\ received' = <<>>
    /\ last' = [op |-> "reset", arg |-> None, key |-> None, links |-> <<>>,
                entries |-> <<>>]
    /\ UNCHANGED scene_vars

NextSceneObserver ==
    \/ \E event \in ObserverEvents : ObserverNotify(event)
    \/ ObserverReset

SpecSceneObserver == Init /\ [][NextSceneObserver]_vars

----------------------------------------------------------------------------
(* Both inheritance passes over lists of several roots: every node has a    *)
(* transform and an opacity, some are layers, and a pass gets a list of up  *)
(* to MaxRootList roots, in any order and with repetitions.                 *)

\* The length of the lists of roots a pass gets.
MaxRootList == 2

\* the lists of roots over keys, the empty one included
RootLists(keys) == UNION {[1..n -> keys] : n \in 0..MaxRootList}

\* RSGComponentBuilder::new(container).transform(..).opacity(..) and .layer() as asked
BuildLinksBoth(container, with_layer) ==
    BuildLinks_layer(
        RSGComponentBuilder_opacity(
            RSGComponentBuilder_transform(RSGComponentBuilder_new(container),
                                          LocalFor(sm_insert_key(container.transforms))),
            OpacityFor(sm_insert_key(container.opacities))),
        with_layer)

SetRootBoth(with_layer) ==
    /\ asserts_ok
    /\ sm_has_room(arena)
    /\ root_key = None
    /\ BecomesIn(set_root(Scene, with_component_links(
                              BuildLinksBoth(components, with_layer).links)),
                 transaction, BuildLinksBoth(components, with_layer).container,
                 "set_root", None, sm_insert_key(arena), <<>>, <<>>)

AppendBoth(parent_key, with_layer) ==
    /\ asserts_ok
    /\ sm_has_room(arena)
    /\ node_count(Scene) < MaxLinkedNodes
    /\ is_valid(Scene, parent_key)
    /\ BecomesIn(append(Scene, parent_key, with_component_links(
                            BuildLinksBoth(components, with_layer).links)),
                 transaction, BuildLinksBoth(components, with_layer).container,
                 "append", parent_key, sm_insert_key(arena), <<>>, <<>>)

NextPasses ==
    \/ \E l \in BOOLEAN : SetRootBoth(l)
    \/ \E k \in sm_keys(arena) : \E l \in BOOLEAN : AppendBoth(k, l)
    \/ \E roots \in RootLists(sm_keys(arena)) : UpdateWorldTransforms(roots)
    \/ \E roots \in RootLists(sm_keys(arena)) : UpdateInheritedOpacities(roots)

SpecPasses == Init /\ [][NextPasses]_vars

----------------------------------------------------------------------------
(* Render lists: a tree is built of nodes of a few kinds, each with a       *)
(* transform; once it is built, build_render_lists runs over it again and   *)
(* again, from any start node, with and without dirty roots: in 2D in       *)
(* SpecRender, under two cameras in SpecRender3D.                           *)

\* the number of nodes the scene of the render lists grows to
MaxRenderNodes == 3

\* what a caller builds a node of: an opacity (0 for no opacity component),
\* whether it has a mesh, a material ("none", or its blend_enable "off" or
\* "on"), whether it has a layer
RenderKind(opacity, mesh, material, layer) ==
    [opacity |-> opacity, mesh |-> mesh, material |-> material, layer |-> layer]

\* the kinds of node of the model: a layer; a mesh of opacity 1 with a
\* material that does not blend; a mesh of opacity 0.5; a mesh with a
\* material that blends; a mesh that is a layer
RenderKinds ==
    << RenderKind(0, FALSE, "none", TRUE),
       RenderKind(OpacityOne, TRUE, "off", FALSE),
       RenderKind(OpacityOne \div 2, TRUE, "none", FALSE),
       RenderKind(0, TRUE, "on", FALSE),
       RenderKind(0, TRUE, "none", TRUE) >>

\* the local matrix of the transform that will get key k: a translation by
\* 1 in the odd slots, by 0 in the even ones
LocalForRender(k) == <<k[1] % 2>>

\* the centre of the bounds of the mesh that will get key k: at 0 in the
\* odd slots, at 2 in the even ones
BoundsFor(k) == 2 * ((k[1] + 1) % 2)

\* RSGCameraWorldTransformDerivedProperties: one camera at 0 looking along
\* +z, one at 4 looking along -z
Cameras == {[position |-> 0, direction |-> 1], [position |-> 4, direction |-> -1]}

BuildRender_opacity(b, kind) ==
    IF kind.opacity # 0 THEN RSGComponentBuilder_opacity(b, kind.opacity) ELSE b

BuildRender_material(b, kind) ==
    IF kind.material # "none"
    THEN RSGComponentBuilder_material(b, [blend_enable |-> kind.material = "on"])
    ELSE b

BuildRender_mesh(b, kind) ==
    IF kind.mesh
    THEN RSGComponentBuilder_mesh(b, [bounds_3d |-> BoundsFor(sm_insert_key(b.container.meshes))])
    ELSE b

\* RSGComponentBuilder::new(container).transform(..) and .opacity(..),
\* .material(..), .mesh(..), .layer() as the kind asks
BuildRender(container, kind) ==
    BuildLinks_layer(
        BuildRender_mesh(
            BuildRender_material(
                BuildRender_opacity(
                    RSGComponentBuilder_transform(
                        RSGComponentBuilder_new(container),
                        LocalForRender(sm_insert_key(container.transforms))),
                    kind),
                kind),
            kind),
        kind.layer)

SetRootRender(kind) ==
    /\ asserts_ok
    /\ sm_has_room(arena)
    /\ root_key = None
    /\ BecomesIn(set_root(Scene, with_component_links(BuildRender(components, kind).links)),
                 transaction, BuildRender(components, kind).container,
                 "set_root", None, sm_insert_key(arena), <<>>, <<>>)

AppendRender(parent_key, kind) ==
    /\ asserts_ok
    /\ sm_has_room(arena)
    /\ node_count(Scene) < MaxRenderNodes
    /\ last.op # "build_render_lists"
    /\ is_valid(Scene, parent_key)
    /\ BecomesIn(append(Scene, parent_key,
                        with_component_links(BuildRender(components, kind).links)),
                 transaction, BuildRender(components, kind).container,
                 "append", parent_key, sm_insert_key(arena), <<>>, <<>>)

\* build_render_lists(components, scene, start_node_key, camera_properties_3d,
\* dirty_world_roots, dirty_opacity_roots, opaque_list, alpha_list, pool)
BuildRenderLists(start_node_key, camera_properties_3d, dirty_world_roots, dirty_opacity_roots, tie) ==
    /\ asserts_ok
    /\ is_valid(Scene, start_node_key)
    /\ BecomesWith(Scene, transaction,
                   build_render_lists_updated(components, Scene, dirty_world_roots,
                                              dirty_opacity_roots),
                   build_render_lists_lists(
                       build_render_lists_updated(components, Scene, dirty_world_roots,
                                                  dirty_opacity_roots),
                       Scene, start_node_key, camera_properties_3d,
                       [opaque_list |-> opaque_list, alpha_list |-> alpha_list], tie),
                   "build_render_lists",
                   [start_node_key |-> start_node_key,
                    camera_properties_3d |-> camera_properties_3d,
                    dirty_world_roots |-> dirty_world_roots,
                    dirty_opacity_roots |-> dirty_opacity_roots, tie |-> tie],
                   None, <<>>, <<>>)

\* the dirty root lists a caller passes, the same for both passes: none, or
\* the root of the scene
DirtyRootsOrNone == {<<>>, <<root_key>>}

NextRender ==
    \/ \E i \in 1..Len(RenderKinds) : SetRootRender(RenderKinds[i])
    \/ \E k \in sm_keys(arena) : \E i \in 1..Len(RenderKinds) :
          AppendRender(k, RenderKinds[i])
    \/ \E k \in sm_keys(arena) : \E dirty \in DirtyRootsOrNone :
          BuildRenderLists(k, None, dirty, dirty, 0)

SpecRender == Init /\ [][NextRender]_vars

\* the kinds of node of the 3D scenes: the mesh of opacity 1 and the mesh of
\* opacity 0.5
RenderKinds3D == <<RenderKinds[2], RenderKinds[3]>>

NextRender3D ==
    \/ \E i \in 1..Len(RenderKinds3D) : SetRootRender(RenderKinds3D[i])
    \/ \E k \in sm_keys(arena) : \E i \in 1..Len(RenderKinds3D) :
          AppendRender(k, RenderKinds3D[i])
    \/ \E cam \in Cameras : \E dirty \in DirtyRootsOrNone :
          \E tie \in 0..(MaxRenderNodes - 1) :
             BuildRenderLists(root_key, cam, dirty, dirty, tie)

SpecRender3D == Init /\ [][NextRender3D]_vars

----------------------------------------------------------------------------
(* Component links through the tree: nodes are inserted with links of the   *)
(* caller's choice, new ones or the ones the last remove returned.          *)

\* the links a caller may build the next node with
LinksToInsert ==
    (IF sm_has_room(arena) THEN {LinksFor(sm_insert_key(arena))} ELSE {})
    \cup (IF last.op = "remove" THEN {last.links[i] : i \in 1..Len(last.links)} ELSE {})

\* what the insertions record of their arguments
InsertArg(at_key, comp_links) == [at_key |-> at_key, comp_links |-> comp_links]

AppendLinks(parent_key, comp_links) ==
    /\ asserts_ok
    /\ sm_has_room(arena)
    /\ is_valid(Scene, parent_key)
    /\ Becomes(append(Scene, parent_key, with_component_links(comp_links)), transaction,
               "append", InsertArg(parent_key, comp_links), sm_insert_key(arena),
               <<>>, <<>>)

PrependLinks(parent_key, comp_links) ==
    /\ asserts_ok
    /\ sm_has_room(arena)
    /\ is_valid(Scene, parent_key)
    /\ Becomes(prepend(Scene, parent_key, with_component_links(comp_links)), transaction,
               "prepend", InsertArg(parent_key, comp_links), sm_insert_key(arena),
               <<>>, <<>>)

InsertBeforeLinks(before_key, comp_links) ==
    /\ asserts_ok
    /\ sm_has_room(arena)
    /\ root_key # None /\ before_key # root_key
    /\ is_valid(Scene, before_key)
    /\ Becomes(insert_before(Scene, before_key, with_component_links(comp_links)),
               transaction, "insert_before", InsertArg(before_key, comp_links),
               sm_insert_key(arena), <<>>, <<>>)

InsertAfterLinks(after_key, comp_links) ==
    /\ asserts_ok
    /\ sm_has_room(arena)
    /\ root_key # None /\ after_key # root_key
    /\ is_valid(Scene, after_key)
    /\ Becomes(insert_after(Scene, after_key, with_component_links(comp_links)),
               transaction, "insert_after", InsertArg(after_key, comp_links),
               sm_insert_key(arena), <<>>, <<>>)

NextLinks ==
    \/ SetRoot
    \/ \E k \in sm_keys(arena) : \E c \in LinksToInsert : AppendLinks(k, c)
    \/ \E k \in sm_keys(arena) : \E c \in LinksToInsert : PrependLinks(k, c)
    \/ \E k \in sm_keys(arena) : \E c \in LinksToInsert : InsertBeforeLinks(k, c)
    \/ \E k \in sm_keys(arena) : \E c \in LinksToInsert : InsertAfterLinks(k, c)
    \/ \E k \in sm_keys(arena) : Remove(k)

SpecLinks == Init /\ [][NextLinks]_vars

----------------------------------------------------------------------------
(* Calls that need not respect the preconditions, in a build with or        *)
(* without debug assertions.                                                *)

\* RSGScene::new() in either build
InitBuilds ==
    /\ arena = SlotMap_new
    /\ root_key = None
    /\ observer = <<>>
    /\ asserts_ok = TRUE
    /\ transaction = RSGSubtreeAddTransaction_new
    /\ freed = {}
    /\ has_observer = TRUE
    /\ components = RSGComponentContainer_default
    /\ opaque_list = <<>>
    /\ alpha_list = <<>>
    /\ scene_observer = RSGSceneObserver_new
    /\ received = <<>>
    /\ debug_assertions \in BOOLEAN
    /\ call = NoCall
    /\ last = [op |-> "new", arg |-> None, key |-> None, links |-> <<>>, entries |-> <<>>]

\* the nodes a caller may pass: a new one, or a copy of a live one that has
\* no children (RSGNode is Copy and scene[key] gives access to it)
NodesToPass ==
    {NewNode(arena)}
    \cup {Node(Scene, k) : k \in {j \in sm_keys(arena) : Node(Scene, j).first_child_key = None}}

\* the handles a caller may pass: live ones and ones whose node is gone
KeysToPass == sm_keys(arena) \cup freed

SetRootCall(node) ==
    /\ asserts_ok
    /\ Becomes(set_root_call(Scene, node, debug_assertions), transaction,
               "set_root", [node |-> node], None, <<>>, <<>>)

AppendCall(parent_key, node) ==
    /\ asserts_ok
    /\ Becomes(append_call(Scene, parent_key, node, debug_assertions), transaction,
               "append", [parent_key |-> parent_key, node |-> node], None, <<>>, <<>>)

RemoveCall(node_key) ==
    /\ asserts_ok
    /\ BecomesRemoved(remove_call(Scene, node_key, TRUE), "remove", node_key)

RemoveWithoutChildrenCall(node_key) ==
    /\ asserts_ok
    /\ BecomesRemoved(remove_call(Scene, node_key, FALSE), "remove_without_children",
                      node_key)

NextCalls ==
    \/ sm_has_room(arena) /\ \E node \in NodesToPass : SetRootCall(node)
    \/ sm_has_room(arena) /\ \E k \in KeysToPass : \E node \in NodesToPass :
          AppendCall(k, node)
    \/ \E k \in KeysToPass : RemoveCall(k)
    \/ \E k \in KeysToPass : RemoveWithoutChildrenCall(k)

SpecCalls == InitBuilds /\ [][NextCalls]_vars

----------------------------------------------------------------------------
(* build_render_lists step by step: the main thread moves the tables out,   *)
(* hands the passes to the pool, traverses, and receives each table before  *)
(* the first node that needs it or at the end; the pool's workers take the  *)
(* jobs from the queue and send the results.  A step of the main thread     *)
(* runs from one receive to the next.                                       *)

\* The number of workers of the pool.
MaxWorkers == 2

\* the closure given to scope.execute: the moved-out table and its roots
Job(kind, table, subtree_roots) ==
    [kind |-> kind, table |-> table, subtree_roots |-> subtree_roots]

\* the jobs the call hands to the pool, in the order of the scope.execute calls
build_render_lists_jobs(components_, dirty_world_roots, dirty_opacity_roots) ==
    (IF dirty_opacity_roots # <<>>
     THEN <<Job("opacity", components_.opacities, dirty_opacity_roots)>> ELSE <<>>)
    \o (IF dirty_world_roots # <<>>
        THEN <<Job("transform", components_.transforms, dirty_world_roots)>> ELSE <<>>)

\* std::mem::replace(&mut components.opacities, Default::default()) and the
\* same for the transforms: the store with the placeholders in it
build_render_lists_moved_out(components_, dirty_world_roots, dirty_opacity_roots) ==
    [components_ EXCEPT
        !.opacities = IF dirty_opacity_roots # <<>> THEN SlotMap_new ELSE @,
        !.transforms = IF dirty_world_roots # <<>> THEN SlotMap_new ELSE @]

\* build_render_lists up to the traversal loop
CallBuildRenderLists(start_node_key, camera_properties_3d, dirty_world_roots, dirty_opacity_roots, tie, pool) ==
    /\ asserts_ok
    /\ call.pc = "idle"
    /\ is_valid(Scene, start_node_key)
    /\ call' = [pc |-> "loop", start_node_key |-> start_node_key,
                camera_properties_3d |-> camera_properties_3d,
                dirty_world_roots |-> dirty_world_roots,
                dirty_opacity_roots |-> dirty_opacity_roots, tie |-> tie,
                components_in |-> components,
                update_opacities |-> dirty_opacity_roots # <<>>,
                update_transforms |-> dirty_world_roots # <<>>,
                nodes |-> traverse(Scene, start_node_key), stacking_order_2d |-> 0,
                pool |-> pool,
                queue |-> build_render_lists_jobs(components, dirty_world_roots,
                                                  dirty_opacity_roots),
                running |-> {}, opacity_rx |-> <<>>, transform_rx |-> <<>>]
    /\ components' = build_render_lists_moved_out(components, dirty_world_roots,
                                                  dirty_opacity_roots)
    /\ opaque_list' = <<>>
    /\ alpha_list' = <<>>
    /\ last' = [op |-> "scoped", arg |-> start_node_key, key |-> None, links |-> <<>>,
                entries |-> <<>>]
    /\ UNCHANGED <<arena, root_key, observer, transaction, asserts_ok, freed,
                   has_observer, scene_observer, received, debug_assertions>>

\* what a step inside the call leaves alone
call_vars == <<arena, root_key, observer, transaction, freed, has_observer, scene_observer,
               received, debug_assertions>>

\* a pool that takes no job
pool_has_free_worker_never(c) == FALSE

\* a worker of the pool is idle
pool_has_free_worker(c) == Cardinality(c.running) < c.pool

\* an idle worker takes the job at the head of the queue
WorkerTake ==
    /\ call.pc # "idle"
    /\ call.queue # <<>>
    /\ pool_has_free_worker(call)
    /\ call' = [call EXCEPT !.queue = Tail(@), !.running = @ \cup {Head(call.queue)}]
    /\ last' = [op |-> "take", arg |-> Head(call.queue).kind, key |-> None,
                links |-> <<>>, entries |-> <<>>]
    /\ UNCHANGED call_vars
    /\ UNCHANGED <<asserts_ok, components, opaque_list, alpha_list>>

\* a task that sends the table as it got it
task_result_unrun(job, s) == job.table

\* the value the task sends: update_inherited_opacities(opacities, scene,
\* dirty_opacity_roots) or update_world_transforms(transforms, scene,
\* dirty_world_roots)
task_result(job, s) ==
    IF job.kind = "opacity"
    THEN update_inherited_opacities(job.table, s, job.subtree_roots)
    ELSE update_world_transforms(job.table, s, job.subtree_roots)

\* a worker runs its job to the end: the pass, then tx.send(..), which does
\* not block
WorkerSend(job) ==
    /\ call.pc # "idle"
    /\ job \in call.running
    /\ call' = [call EXCEPT
                  !.running = @ \ {job},
                  !.opacity_rx = IF job.kind = "opacity"
                                 THEN Append(@, task_result(job, Scene)) ELSE @,
                  !.transform_rx = IF job.kind = "transform"
                                   THEN Append(@, task_result(job, Scene)) ELSE @]
    /\ last' = [op |-> "send", arg |-> job.kind, key |-> None, links |-> <<>>,
                entries |-> <<>>]
    /\ UNCHANGED call_vars
    /\ UNCHANGED <<asserts_ok, components, opaque_list, alpha_list>>

\* the main thread is at opacity_rx.recv(): in the loop at a node with a
\* mesh, or after the loop, with update_opacities still set
at_opacity_recv(c, s) ==
    /\ c.update_opacities
    /\ \/ c.pc = "end"
       \/ /\ c.pc = "loop"
          /\ get_component_links(s, Head(c.nodes)[1]).mesh_key # None

\* the main thread is at transform_rx.recv(): in the loop at a node with a
\* mesh when there is a camera, or after the loop, past the opacity receive
at_transform_recv(c, s) ==
    /\ c.update_transforms
    /\ ~ c.update_opacities
    /\ \/ c.pc = "end"
       \/ /\ c.pc = "loop"
          /\ get_component_links(s, Head(c.nodes)[1]).mesh_key # None
          /\ c.camera_properties_3d # None

\* components.opacities = opacity_rx.recv().unwrap(); update_opacities = false
RecvOpacity ==
    /\ asserts_ok
    /\ at_opacity_recv(call, Scene)
    /\ call.opacity_rx # <<>>
    /\ components' = [components EXCEPT !.opacities = Head(call.opacity_rx)]
    /\ call' = [call EXCEPT !.opacity_rx = Tail(@), !.update_opacities = FALSE]
    /\ last' = [op |-> "recv", arg |-> "opacity", key |-> None, links |-> <<>>,
                entries |-> <<>>]
    /\ UNCHANGED call_vars
    /\ UNCHANGED <<asserts_ok, opaque_list, alpha_list>>

\* components.transforms = transform_rx.recv().unwrap(); update_transforms = false
RecvTransform ==
    /\ asserts_ok
    /\ at_transform_recv(call, Scene)
    /\ call.transform_rx # <<>>
    /\ components' = [components EXCEPT !.transforms = Head(call.transform_rx)]
    /\ call' = [call EXCEPT !.transform_rx = Tail(@), !.update_transforms = FALSE]
    /\ last' = [op |-> "recv", arg |-> "transform", key |-> None, links |-> <<>>,
                entries |-> <<>>]
    /\ UNCHANGED call_vars
    /\ UNCHANGED <<asserts_ok, opaque_list, alpha_list>>

\* a loop body that receives nothing before it reads
recv_pending_skipped(c, s) == FALSE

\* the body of the loop has a receive to do before it reads a table
recv_pending(c, s) == at_opacity_recv(c, s) \/ at_transform_recv(c, s)

\* the body of the loop for this node would index a table that is moved
\* out: the placeholder holds no record, so the index panics
reads_moved_out(c, comp_links) ==
    /\ comp_links.mesh_key # None
    /\ \/ c.update_opacities /\ comp_links.opacity_key # None
       \/ c.update_transforms /\ c.camera_properties_3d # None

\* the traversal after the node at its head: over after a node other than
\* the start that has a layer
nodes_after(c, comp_links) ==
    IF comp_links.layer_key # None /\ Head(c.nodes)[1] # c.start_node_key
    THEN <<>> ELSE Tail(c.nodes)

\* the lists after the body of the loop for the node at the head of the
\* traversal, reversed as the code does after the loop if that was the last
visit_lists(c, components_, comp_links, lists) ==
    IF nodes_after(c, comp_links) = <<>>
    THEN build_render_lists_finish(
             c.camera_properties_3d,
             build_render_lists_node(components_, Head(c.nodes)[1], comp_links,
                                     c.camera_properties_3d, lists, c.tie))
    ELSE build_render_lists_node(components_, Head(c.nodes)[1], comp_links,
                                 c.camera_properties_3d, lists, c.tie)

\* the body of the loop for the node at the head of the traversal, past its
\* receives; after the last node the code that follows the loop, up to the
\* next receive
VisitNode ==
    /\ asserts_ok
    /\ call.pc = "loop"
    /\ ~ recv_pending(call, Scene)
    /\ IF reads_moved_out(call, get_component_links(Scene, Head(call.nodes)[1]))
       THEN /\ asserts_ok' = FALSE
            /\ UNCHANGED <<call, opaque_list, alpha_list>>
       ELSE /\ asserts_ok' = TRUE
            /\ opaque_list' =
                  visit_lists(call, components,
                              get_component_links(Scene, Head(call.nodes)[1]),
                              [opaque_list |-> opaque_list, alpha_list |-> alpha_list,
                               stacking_order_2d |-> call.stacking_order_2d]).opaque_list
            /\ alpha_list' =
                  visit_lists(call, components,
                              get_component_links(Scene, Head(call.nodes)[1]),
                              [opaque_list |-> opaque_list, alpha_list |-> alpha_list,
                               stacking_order_2d |-> call.stacking_order_2d]).alpha_list
            /\ call' = [call EXCEPT
                          !.nodes = nodes_after(call, get_component_links(
                                                          Scene, Head(call.nodes)[1])),
                          !.stacking_order_2d =
                              IF /\ get_component_links(Scene, Head(call.nodes)[1]).mesh_key
                                       # None
                                 /\ call.camera_properties_3d = None
                              THEN @ + 1 ELSE @,
                          !.pc = IF nodes_after(call, get_component_links(
                                                          Scene, Head(call.nodes)[1])) = <<>>
                                 THEN "end" ELSE "loop"]
    /\ last' = [op |-> "visit", arg |-> Head(call.nodes)[1], key |-> None, links |-> <<>>,
                entries |-> <<>>]
    /\ UNCHANGED call_vars
    /\ UNCHANGED components

\* a scope that is left with receives still to do
scope_done_unjoined(c) == c.pc = "end"

\* the closure of pool.scoped is at its end and the scope has joined: both
\* receives are done and no job is queued or running
scope_done(c) ==
    /\ c.pc = "end"
    /\ ~ c.update_opacities
    /\ ~ c.update_transforms
    /\ c.queue = <<>>
    /\ c.running = {}

\* build_render_lists returns
ReturnBuildRenderLists ==
    /\ asserts_ok
    /\ scope_done(call)
    /\ call' = [call EXCEPT !.pc = "idle"]
    /\ last' = [op |-> "build_render_lists",
                arg |-> [start_node_key |-> call.start_node_key,
                         camera_properties_3d |-> call.camera_properties_3d,
                         dirty_world_roots |-> call.dirty_world_roots,
                         dirty_opacity_roots |-> call.dirty_opacity_roots,
                         tie |-> call.tie],
                key |-> None, links |-> <<>>, entries |-> <<>>]
    /\ UNCHANGED call_vars
    /\ UNCHANGED <<asserts_ok, components, opaque_list, alpha_list>>

\* the kinds of node of these scenes: the layer without a mesh, the mesh of
\* opacity 1 and the mesh of opacity 0.5
RenderKindsPool == <<RenderKinds[1], RenderKinds[2], RenderKinds[3]>>

\* the camera of a call: none, or one of the two
CamerasOrNone == {None} \cup Cameras

\* the steps of the main thread
MainStep ==
    \/ RecvOpacity
    \/ RecvTransform
    \/ VisitNode
    \/ ReturnBuildRenderLists

\* the steps of the pool's workers
WorkerStep ==
    \/ WorkerTake
    \/ \E job \in call.running : WorkerSend(job)

NextPool ==
    \/ call.pc = "idle" /\ \E i \in 1..Len(RenderKindsPool) : SetRootRender(RenderKindsPool[i])
    \/ call.pc = "idle" /\ \E k \in sm_keys(arena) : \E i \in 1..Len(RenderKindsPool) :
          AppendRender(k, RenderKindsPool[i])
    \/ \E cam \in CamerasOrNone : \E dirty_world_roots \in DirtyRootsOrNone :
          \E dirty_opacity_roots \in DirtyRootsOrNone : \E pool \in 1..MaxWorkers :
             CallBuildRenderLists(root_key, cam, dirty_world_roots, dirty_opacity_roots,
                                  0, pool)
    \/ MainStep
    \/ WorkerStep

SpecPool == Init /\ [][NextPool]_vars

\* The number of nodes of the scenes of the calls whose return is checked.
MaxPoolNodes == 2

\* one call per scene, on scenes of up to MaxPoolNodes nodes
NextPoolOnce ==
    \/ call.pc = "idle" /\ \E i \in 1..Len(RenderKindsPool) : SetRootRender(RenderKindsPool[i])
    \/ call.pc = "idle" /\ \E k \in sm_keys(arena) : \E i \in 1..Len(RenderKindsPool) :
          node_count(Scene) < MaxPoolNodes /\ AppendRender(k, RenderKindsPool[i])
    \/ \E cam \in CamerasOrNone : \E dirty_world_roots \in DirtyRootsOrNone :
          \E dirty_opacity_roots \in DirtyRootsOrNone : \E pool \in 1..MaxWorkers :
             /\ last.op # "build_render_lists"
             /\ CallBuildRenderLists(root_key, cam, dirty_world_roots, dirty_opacity_roots,
                                     0, pool)
    \/ MainStep
    \/ WorkerStep

\* the calls with the scheduling the code relies on: the main thread runs
\* when it can, and the pool's workers run the jobs they are given
SpecPoolFair == Init /\ [][NextPoolOnce]_vars /\ WF_vars(MainStep) /\ WF_vars(WorkerStep)

----------------------------------------------------------------------------
(* A scene whose observer is the canonical RSGSceneObserver: every event of *)
(* an operation reaches RSGSceneObserver::notify, local values change and   *)
(* are reported with mark_dirty, and a prepare hands the observer's lists   *)
(* to build_render_lists and resets the observer.                           *)

\* the observer after the events of one operation, in the order of emission
RECURSIVE NotifyAll(_, _)
NotifyAll(o, events) ==
    IF events = <<>> THEN o
    ELSE NotifyAll(RSGSceneObserver_notify(o, Head(events).event), Tail(events))

\* the state after an operation on a scene whose observer is scene_observer
BecomesObserved(s, container, op, arg, key, ret_links) ==
    /\ arena' = s.arena
    /\ root_key' = s.root_key
    /\ observer' = s.observer
    /\ asserts_ok' = s.ok
    /\ freed' = freed \cup (sm_keys(arena) \ sm_keys(s.arena))
    /\ has_observer' = s.has_observer
    /\ components' = container
    /\ scene_observer' = NotifyAll(scene_observer, s.observer)
    /\ UNCHANGED <<transaction, opaque_list, alpha_list, received, debug_assertions,
                   call>>
    /\ last' = [op |-> op, arg |-> arg, key |-> key, links |-> ret_links,
                entries |-> <<>>]

\* The number of entries a dirty list may hold when a further operation
\* that pushes to it starts.
MaxPending == 1

\* the lists of the observer are short enough for one more operation
ObserverHasRoom ==
    /\ Len(scene_observer.dirty_world_roots) < MaxPending
    /\ Len(scene_observer.dirty_opacity_roots) < MaxPending

SetRootObserved(with_layer) ==
    /\ asserts_ok
    /\ sm_has_room(arena)
    /\ root_key = None
    /\ BecomesObserved(set_root(Scene, with_component_links(
                                    BuildLinksBoth(components, with_layer).links)),
                       BuildLinksBoth(components, with_layer).container,
                       "set_root", None, sm_insert_key(arena), <<>>)

AppendObserved(parent_key, with_layer) ==
    /\ asserts_ok
    /\ sm_has_room(arena)
    /\ sm_inserts_upto(components.transforms, NSlots) < MaxLinkedNodes
    /\ ObserverHasRoom
    /\ is_valid(Scene, parent_key)
    /\ BecomesObserved(append(Scene, parent_key, with_component_links(
                                  BuildLinksBoth(components, with_layer).links)),
                       BuildLinksBoth(components, with_layer).container,
                       "append", parent_key, sm_insert_key(arena), <<>>)

InsertUnderObserved(parent_key, with_layer) ==
    /\ asserts_ok
    /\ sm_has_room(arena)
    /\ sm_inserts_upto(components.transforms, NSlots) < MaxLinkedNodes
    /\ ObserverHasRoom
    /\ is_valid(Scene, parent_key)
    /\ BecomesObserved(insert_under(Scene, parent_key, with_component_links(
                                        BuildLinksBoth(components, with_layer).links)),
                       BuildLinksBoth(components, with_layer).container,
                       "insert_under", parent_key, sm_insert_key(arena), <<>>)

RemoveObserved(node_key) ==
    /\ asserts_ok
    /\ remove_helper_asserts(Scene, node_key)
    /\ is_valid(Scene, node_key)
    /\ BecomesObserved(remove(Scene, node_key).scene, components, "remove", node_key,
                       None, <<remove(Scene, node_key).comp_links>>)

RemoveWithoutChildrenObserved(node_key) ==
    /\ asserts_ok
    /\ ObserverHasRoom
    /\ remove_helper_asserts(Scene, node_key)
    /\ is_valid(Scene, node_key)
    /\ BecomesObserved(remove_without_children(Scene, node_key).scene, components,
                       "remove_without_children", node_key, None,
                       <<remove_without_children(Scene, node_key).comp_links>>)

\* the local matrix and the opacity a node is changed to
ChangedLocal == <<9>>
ChangedOpacity == OpacityOne \div 8

\* the store with the local values of the kinds in flags changed for the
\* node with these links
with_local_values(container, comp_links, flags) ==
    [container EXCEPT
       !.transforms = IF HasBit(flags, RSGDirtyFlags_TRANSFORM)
                      THEN [@ EXCEPT !.slots[comp_links.transform_key[1]]
                                        .value.local_transform = ChangedLocal]
                      ELSE @,
       !.opacities = IF HasBit(flags, RSGDirtyFlags_OPACITY)
                     THEN [@ EXCEPT !.slots[comp_links.opacity_key[1]]
                                       .value.opacity = ChangedOpacity]
                     ELSE @]

\* the kinds of local value changed together: the transform, the opacity, both
ChangedKinds ==
    {RSGDirtyFlags_TRANSFORM, RSGDirtyFlags_OPACITY,
     RSGDirtyFlags_TRANSFORM + RSGDirtyFlags_OPACITY}

\* the caller changes local values of a node and reports it:
\* scene.mark_dirty(node_key, flags) with the bits of the changed kinds
SetLocalValues(node_key, flags) ==
    /\ asserts_ok
    /\ ObserverHasRoom
    /\ is_valid(Scene, node_key)
    /\ with_local_values(components, get_component_links(Scene, node_key), flags)
          # components
    /\ BecomesObserved(mark_dirty(Scene, node_key, flags),
                       with_local_values(components,
                                         get_component_links(Scene, node_key), flags),
                       "mark_dirty", <<node_key, flags>>, None, <<>>)

\* a pass over these roots traverses only slots that hold a node:
\* RSGIter::next indexes the arena with the key, which panics otherwise
roots_in_arena(s, subtree_roots) ==
    \A i \in 1..Len(subtree_roots) : sm_contains(s.arena, subtree_roots[i])

\* build_render_lists for the root with the observer's lists, then
\* observer.reset(); a pass that panics takes the call with it
Prepare ==
    /\ asserts_ok
    /\ root_key # None
    /\ scene_observer.changed
    /\ arena' = arena
    /\ root_key' = root_key
    /\ observer' = <<>>
    /\ asserts_ok' = (/\ roots_in_arena(Scene, scene_observer.dirty_world_roots)
                      /\ roots_in_arena(Scene, scene_observer.dirty_opacity_roots))
    /\ components' =
          IF asserts_ok'
          THEN build_render_lists_updated(components, Scene,
                                          scene_observer.dirty_world_roots,
                                          scene_observer.dirty_opacity_roots)
          ELSE components
    /\ scene_observer' = IF asserts_ok' THEN RSGSceneObserver_reset(scene_observer)
                         ELSE scene_observer
    /\ UNCHANGED <<transaction, freed, has_observer, opaque_list, alpha_list, received,
                   debug_assertions, call>>
    /\ last' = [op |-> "prepare",
                arg |-> [dirty_world_roots |-> scene_observer.dirty_world_roots,
                         dirty_opacity_roots |-> scene_observer.dirty_opacity_roots],
                key |-> None, links |-> <<>>, entries |-> <<>>]

NextPrepare ==
    \/ \E l \in BOOLEAN : SetRootObserved(l)
    \/ \E k \in sm_keys(arena) : \E l \in BOOLEAN : AppendObserved(k, l)
    \/ \E k \in sm_keys(arena) : \E l \in BOOLEAN : InsertUnderObserved(k, l)
    \/ \E k \in sm_keys(arena) : RemoveObserved(k)
    \/ \E k \in sm_keys(arena) : RemoveWithoutChildrenObserved(k)
    \/ \E k \in sm_keys(arena) : \E f \in ChangedKinds : SetLocalValues(k, f)
    \/ Prepare

SpecPrepare == Init /\ [][NextPrepare]_vars

\* the handles waiting in the observer's two lists of roots
PendingRoots ==
    {scene_observer.dirty_world_roots[i] : i \in 1..Len(scene_observer.dirty_world_roots)}
    \cup {scene_observer.dirty_opacity_roots[i] :
             i \in 1..Len(scene_observer.dirty_opacity_roots)}

\* the same scene when no node waiting in the observer's lists is removed
\* and local values change one kind at a time
NextPrepareOneKind ==
    \/ \E l \in BOOLEAN : SetRootObserved(l)
    \/ \E k \in sm_keys(arena) : \E l \in BOOLEAN : AppendObserved(k, l)
    \/ \E k \in sm_keys(arena) : \E l \in BOOLEAN : InsertUnderObserved(k, l)
    \/ \E k \in sm_keys(arena) :
          /\ is_valid(Scene, k)
          /\ \A i \in 1..Len(traverse(Scene, k)) : traverse(Scene, k)[i][1] \notin PendingRoots
          /\ RemoveObserved(k)
    \/ \E k \in sm_keys(arena) : k \notin PendingRoots /\ RemoveWithoutChildrenObserved(k)
    \/ \E k \in sm_keys(arena) :
          \E f \in {RSGDirtyFlags_TRANSFORM, RSGDirtyFlags_OPACITY} : SetLocalValues(k, f)
    \/ Prepare

SpecPrepareOneKind == Init /\ [][NextPrepareOneKind]_vars

----------------------------------------------------------------------------
(* Staging into a transaction with any handle as parent, in a build with    *)
(* debug assertions.                                                        *)

\* record_add_transaction from its first line: the debug_assert!s, then the
\* insertion and the entry
record_add_transaction_call(s, op, parent_key, node, txn, build) ==
    IF build /\ ~ record_add_transaction_asserts(s, parent_key, node, txn)
    THEN [scene |-> panic(s), transaction |-> txn]
    ELSE record_add_transaction(s, op, parent_key, node, txn)

AppendWithTransactionCall(parent_key) ==
    /\ asserts_ok
    /\ sm_has_room(arena)
    /\ BecomesStaged(record_add_transaction_call(Scene, "Append", parent_key,
                                                 NewNode(arena), transaction,
                                                 debug_assertions),
                     "append_with_transaction", parent_key, sm_insert_key(arena))

PrependWithTransactionCall(parent_key) ==
    /\ asserts_ok
    /\ sm_has_room(arena)
    /\ BecomesStaged(record_add_transaction_call(Scene, "Prepend", parent_key,
                                                 NewNode(arena), transaction,
                                                 debug_assertions),
                     "prepend_with_transaction", parent_key, sm_insert_key(arena))

NextStaging ==
    \/ SetRoot
    \/ \E k \in sm_keys(arena) : AppendNode(k)
    \/ \E k \in sm_keys(arena) : Remove(k)
    \/ \E k \in KeysToPass : AppendWithTransactionCall(k)
    \/ \E k \in KeysToPass : PrependWithTransactionCall(k)
    \/ Commit
    \/ Rollback

SpecStaging == Init /\ [][NextStaging]_vars

----------------------------------------------------------------------------
(* The component store over a scene's life: nodes are built with            *)
(* components, removed from the scene, and the links remove() returned are  *)
(* handed to the store's remove.                                            *)

\* components.remove(component_links) with the links the last remove returned
StoreRemove(component_links) ==
    /\ asserts_ok
    /\ BecomesIn(Scene, transaction,
                 RSGComponentContainer_remove(components, component_links),
                 "store_remove", component_links, None, <<>>, <<>>)

\* the kinds of node of the store's scenes: the mesh with an opacity and a
\* material, and the mesh that is a layer; between them a component of each
\* of the five lists
StoreKinds == <<RenderKinds[2], RenderKinds[5]>>

NextStore ==
    \/ \E i \in 1..Len(StoreKinds) : SetRootRender(StoreKinds[i])
    \/ \E k \in sm_keys(arena) : \E i \in 1..Len(StoreKinds) :
          /\ sm_has_room(components.transforms)
          /\ AppendRender(k, StoreKinds[i])
    \/ \E k \in sm_keys(arena) : Remove(k)
    \/ \E i \in 1..Len(last.links) : last.op = "remove" /\ StoreRemove(last.links[i])

SpecStore == Init /\ [][NextStore]_vars

----------------------------------------------------------------------------
(* The scene as the state holds it, and as the next state holds it.         *)

Cur == [arena |-> arena, root_key |-> root_key, observer |-> observer, ok |-> asserts_ok,
        has_observer |-> has_observer]

Nxt == [arena |-> arena', root_key |-> root_key', observer |-> observer',
        ok |-> asserts_ok', has_observer |-> has_observer']

\* the keys for which is_valid is true
ValidKeys(s) == {k \in sm_keys(s.arena) : is_valid(s, k)}

\* the keys traverse(k) yields
SubtreeKeys(s, k) == {traverse(s, k)[i][1] : i \in 1..Len(traverse(s, k))}

\* the node reached from k by following prev_sibling (next_sibling) to the end
RECURSIVE FirstSibling(_, _, _)
FirstSibling(s, k, fuel) ==
    IF Node(s, k).prev_sibling_key = None \/ fuel = 0 THEN k
    ELSE FirstSibling(s, Node(s, k).prev_sibling_key, fuel - 1)

RECURSIVE LastSibling(_, _, _)
LastSibling(s, k, fuel) ==
    IF Node(s, k).next_sibling_key = None \/ fuel = 0 THEN k
    ELSE LastSibling(s, Node(s, k).next_sibling_key, fuel - 1)

\* No internal debug_assert of the code fails while the preconditions hold.
AssertsHold == asserts_ok

----------------------------------------------------------------------------
(* C1 *)

SiblingsWellFormedAt(s, k) ==
    /\ Node(s, k).prev_sibling_key # None =>
          /\ is_valid(s, Node(s, k).prev_sibling_key)
          /\ Node(s, Node(s, k).prev_sibling_key).next_sibling_key = k
    /\ Node(s, k).next_sibling_key # None =>
          /\ is_valid(s, Node(s, k).next_sibling_key)
          /\ Node(s, Node(s, k).next_sibling_key).prev_sibling_key = k
    /\ Node(s, k).parent_key # None =>
          /\ sm_contains(s.arena, Node(s, k).parent_key)
          /\ FirstSibling(s, k, NSlots) = Node(s, Node(s, k).parent_key).first_child_key
          /\ LastSibling(s, k, NSlots) = Node(s, Node(s, k).parent_key).last_child_key
    /\ Node(s, k).first_child_key # None =>
          /\ is_valid(s, Node(s, k).first_child_key)
          /\ Node(s, Node(s, k).first_child_key).prev_sibling_key = None
    /\ Node(s, k).last_child_key # None =>
          /\ is_valid(s, Node(s, k).last_child_key)
          /\ Node(s, Node(s, k).last_child_key).next_sibling_key = None

\* C1: in every reachable state the sibling lists are well formed: for every
\* valid node N, prev_sibling = P implies P.next_sibling = N and next_sibling
\* = Q implies Q.prev_sibling = N; following prev_sibling from N ends at the
\* parent's first_child and following next_sibling at its last_child; a
\* first child has no prev_sibling and a last child no next_sibling; and for
\* every node in the arena first_child is set exactly when last_child is.
C1_SiblingListsWellFormed ==
    /\ \A k \in ValidKeys(Cur) : SiblingsWellFormedAt(Cur, k)
    /\ \A k \in sm_keys(arena) :
          (Node(Cur, k).first_child_key = None) <=> (Node(Cur, k).last_child_key = None)

\* a node linked back in behind an older sibling, right after its parent was
\* removed from between them
C1_Witness ==
    /\ last.op = "remove_without_children"
    /\ \E k \in ValidKeys(Cur) :
          /\ Node(Cur, k).prev_sibling_key # None
          /\ \E i \in 1..Len(observer) :
                observer[i].event = SubtreeAddedOrReattached(k)

----------------------------------------------------------------------------
(* C2 *)

RootedTree(s) ==
    /\ s.root_key # None =>
          /\ is_valid(s, s.root_key)
          /\ Node(s, s.root_key).parent_key = None
          /\ SubtreeKeys(s, s.root_key) = ValidKeys(s)
    /\ s.root_key = None => ValidKeys(s) = {}
    /\ \A k \in ValidKeys(s) :
          /\ k # s.root_key =>
                /\ Node(s, k).parent_key # None
                /\ is_valid(s, Node(s, k).parent_key)
          /\ ancestors_with_node(s, k)[Len(ancestors_with_node(s, k))] = s.root_key
          /\ \A i \in 1..Len(ancestors(s, k)) : ancestors(s, k)[i] # k

\* C2: in every reachable state the valid nodes form one rooted tree: the
\* root has no parent and is valid, every other valid node has a valid
\* parent, the parent chain of every valid node ends at the root without
\* meeting the node itself, and the traversal from the root yields exactly
\* the valid nodes; and a root, once set, stays the root in every step.
C2_OneRootedTree ==
    /\ []RootedTree(Cur)
    /\ [][root_key # None => (root_key' = root_key /\ is_valid(Nxt, root_key))]_vars

\* a tree three levels deep right after a node was wrapped or unwrapped
C2_Witness ==
    /\ last.op \in {"insert_under", "remove_without_children"}
    /\ \E k \in ValidKeys(Cur) : Len(ancestors(Cur, k)) >= 2

----------------------------------------------------------------------------
(* C3 *)

StagedKeys(entries) == {entries[i][2] : i \in 1..Len(entries)}

\* C3: right after commit(t) every handle staged by t is valid and is linked
\* in the child list of the parent it was staged under; right after
\* rollback(t) no handle staged by t is valid.
C3_CommitLinksRollbackFrees ==
    /\ last.op = "commit" =>
          \A i \in 1..Len(last.entries) :
             /\ is_valid(Cur, last.entries[i][2])
             /\ Node(Cur, last.entries[i][2]).parent_key = last.entries[i][1]
             /\ InSiblings(Cur, Node(Cur, last.entries[i][1]).first_child_key,
                           last.entries[i][2], NSlots + 1)
    /\ last.op = "rollback" =>
          \A i \in 1..Len(last.entries) :
             /\ ~is_valid(Cur, last.entries[i][2])
             /\ ~sm_contains(arena, last.entries[i][2])

\* a committed transaction whose second node was staged under its first
C3_Witness ==
    /\ last.op = "commit"
    /\ Len(last.entries) >= 2
    /\ last.entries[2][1] = last.entries[1][2]

----------------------------------------------------------------------------
(* C4 *)

\* seq without every occurrence of k
RECURSIVE Without(_, _)
Without(seq, k) ==
    IF seq = <<>> THEN <<>>
    ELSE IF Head(seq) = k THEN Without(Tail(seq), k)
    ELSE <<Head(seq)>> \o Without(Tail(seq), k)

RemovePost(pre, post, k) ==
    /\ \A d \in SubtreeKeys(pre, k) : ~is_valid(post, d)
    /\ node_count(post) = node_count(pre) - Cardinality(SubtreeKeys(pre, k))
    /\ ValidKeys(post) = ValidKeys(pre) \ SubtreeKeys(pre, k)
    /\ Node(pre, k).parent_key # None =>
          /\ Children(post, Node(pre, k).parent_key)
                = Without(Children(pre, Node(pre, k).parent_key), k)
          /\ IF Node(pre, k).prev_sibling_key # None
             THEN Node(post, Node(pre, k).prev_sibling_key).next_sibling_key
                     = Node(pre, k).next_sibling_key
             ELSE Node(post, Node(pre, k).parent_key).first_child_key
                     = Node(pre, k).next_sibling_key
          /\ IF Node(pre, k).next_sibling_key # None
             THEN Node(post, Node(pre, k).next_sibling_key).prev_sibling_key
                     = Node(pre, k).prev_sibling_key
             ELSE Node(post, Node(pre, k).parent_key).last_child_key
                     = Node(pre, k).prev_sibling_key

\* C4: a step remove(k) on a valid k leaves k and every node of k's subtree
\* invalid, lowers node_count by the size of that subtree, keeps every other
\* valid handle valid, and links k's former neighbours (or the parent's
\* first_child / last_child) to each other.
C4_RemoveSubtree ==
    [][last'.op = "remove" => RemovePost(Cur, Nxt, last'.arg)]_vars

\* a subtree of two or more nodes was removed from beside a surviving sibling
C4_Witness ==
    /\ last.op = "remove"
    /\ Len(observer) = 1
    /\ observer[1].seen.size >= 2
    /\ observer[1].seen.parent # None
    /\ Node(Cur, observer[1].seen.parent).first_child_key # None

----------------------------------------------------------------------------
(* C5 *)

InsertUnderPost(pre, post, P, N) ==
    /\ is_valid(post, N)
    /\ Children(post, P) = <<N>>
    /\ Node(post, N).parent_key = P
    /\ Children(post, N) = Children(pre, P)
    /\ Children(pre, P) = <<>> =>
          /\ Node(post, N).first_child_key = None
          /\ Node(post, N).last_child_key = None
    /\ \A i \in 1..Len(Children(pre, P)) :
          /\ Node(post, Children(pre, P)[i]).parent_key = N
          /\ traverse(post, Children(pre, P)[i]) = traverse(pre, Children(pre, P)[i])
    /\ \A h \in sm_keys(pre.arena) :
          \/ h = P
          \/ InSiblings(pre, Node(pre, P).first_child_key, h, NSlots + 1)
          \/ Node(post, h) = Node(pre, h)
    /\ node_count(post) = node_count(pre) + 1

\* C5: a step insert_under(n, P) on a valid P leaves the new node N the only
\* child of P and P's former children, in their former order, the children
\* of N with N as parent and their subtrees as they were; N is a leaf when P
\* had no children.
C5_InsertUnder ==
    [][last'.op = "insert_under" => InsertUnderPost(Cur, Nxt, last'.arg, last'.key)]_vars

\* a node was put between a parent and its two children
C5_Witness ==
    /\ last.op = "insert_under"
    /\ Len(Children(Cur, last.key)) >= 2

----------------------------------------------------------------------------
(* C6 *)

\* seq with k replaced by the elements of cs
RECURSIVE Splice(_, _, _)
Splice(seq, k, cs) ==
    IF seq = <<>> THEN <<>>
    ELSE IF Head(seq) = k THEN cs \o Tail(seq)
    ELSE <<Head(seq)>> \o Splice(Tail(seq), k, cs)

RemoveWithoutChildrenPost(pre, post, k) ==
    /\ ~is_valid(post, k)
    /\ node_count(post) = node_count(pre) - 1
    /\ ValidKeys(post) = ValidKeys(pre) \ {k}
    /\ Children(post, Node(pre, k).parent_key)
          = Splice(Children(pre, Node(pre, k).parent_key), k, Children(pre, k))
    /\ \A i \in 1..Len(Children(pre, k)) :
          /\ is_valid(post, Children(pre, k)[i])
          /\ Node(post, Children(pre, k)[i]).parent_key = Node(pre, k).parent_key
          /\ traverse(post, Children(pre, k)[i]) = traverse(pre, Children(pre, k)[i])

\* C6: a step remove_without_children(k) on a valid non-root k leaves k
\* invalid and k's former children, in their former order and each with its
\* subtree as it was, in the child list of k's former parent at the place k
\* had among its siblings.
C6_RemoveWithoutChildren ==
    [][last'.op = "remove_without_children" =>
          RemoveWithoutChildrenPost(Cur, Nxt, last'.arg)]_vars

\* a child of the removed node now stands before the removed node's former
\* next sibling
C6_Witness ==
    /\ last.op = "remove_without_children"
    /\ Len(observer) >= 3
    /\ observer[Len(observer)].event.type = "SubtreeAddedOrReattached"
    /\ Node(Cur, observer[Len(observer)].event.key).next_sibling_key # None

----------------------------------------------------------------------------
(* C7 *)

\* seq with n put immediately before (after) s
RECURSIVE PutBefore(_, _, _)
PutBefore(seq, sib, n) ==
    IF seq = <<>> THEN <<>>
    ELSE IF Head(seq) = sib THEN <<n>> \o seq
    ELSE <<Head(seq)>> \o PutBefore(Tail(seq), sib, n)

RECURSIVE PutAfter(_, _, _)
PutAfter(seq, sib, n) ==
    IF seq = <<>> THEN <<>>
    ELSE IF Head(seq) = sib THEN <<sib, n>> \o Tail(seq)
    ELSE <<Head(seq)>> \o PutAfter(Tail(seq), sib, n)

InsertionPost(pre, post, op, arg, n) ==
    /\ is_valid(post, n)
    /\ op = "append" =>
          /\ Children(post, arg) = Children(pre, arg) \o <<n>>
          /\ Node(post, arg).last_child_key = n
          /\ Node(post, n).parent_key = arg
    /\ op = "prepend" =>
          /\ Children(post, arg) = <<n>> \o Children(pre, arg)
          /\ Node(post, arg).first_child_key = n
          /\ Node(post, n).parent_key = arg
    /\ op = "insert_before" =>
          /\ Children(post, Node(pre, arg).parent_key)
                = PutBefore(Children(pre, Node(pre, arg).parent_key), arg, n)
          /\ Node(post, arg).prev_sibling_key = n
          /\ Node(post, n).next_sibling_key = arg
          /\ Node(post, n).parent_key = Node(pre, arg).parent_key
    /\ op = "insert_after" =>
          /\ Children(post, Node(pre, arg).parent_key)
                = PutAfter(Children(pre, Node(pre, arg).parent_key), arg, n)
          /\ Node(post, arg).next_sibling_key = n
          /\ Node(post, n).prev_sibling_key = arg
          /\ Node(post, n).parent_key = Node(pre, arg).parent_key

\* C7: each single-node insertion step puts the new node at the stated place
\* and keeps the order of the children already there: append(P, n) makes n
\* the last child of P, prepend(P, n) the first, insert_before(s, n) the
\* sibling immediately before s and insert_after(s, n) the sibling
\* immediately after s, whatever operations came before.
C7_InsertionPositions ==
    [][last'.op \in {"append", "prepend", "insert_before", "insert_after"} =>
          InsertionPost(Cur, Nxt, last'.op, last'.arg, last'.key)]_vars

\* a node was inserted before a sibling that was not the first child
C7_Witness ==
    /\ last.op = "insert_before"
    /\ Node(Cur, last.key).prev_sibling_key # None
    /\ Node(Cur, last.key).next_sibling_key = last.arg

----------------------------------------------------------------------------
(* C8 *)

\* C8 as stated: in every reachable state, the states with staged nodes
\* included, node_count() is the number of handles for which is_valid holds.
C8_NodeCountIsValidCount ==
    node_count(Cur) = Cardinality(ValidKeys(Cur))

\* C8: in every reachable state node_count() is the number of handles for
\* which is_valid holds plus the number of nodes staged in the transaction
\* that is neither committed nor rolled back; the two numbers are equal
\* exactly when nothing is staged.
C8_NodeCountIsValidPlusStaged ==
    /\ node_count(Cur) = Cardinality(ValidKeys(Cur)) + Len(transaction.entries)
    /\ Cardinality(StagedKeys(transaction.entries)) = Len(transaction.entries)
    /\ StagedKeys(transaction.entries) \cap ValidKeys(Cur) = {}
    /\ StagedKeys(transaction.entries) \subseteq sm_keys(arena)

\* two nodes are staged beside a tree of two valid nodes
C8_Witness ==
    /\ Len(transaction.entries) = 2
    /\ Cardinality(ValidKeys(Cur)) = 2
    /\ node_count(Cur) = 4

----------------------------------------------------------------------------
(* C9 *)

LinkFields(node) ==
    <<node.parent_key, node.first_child_key, node.last_child_key,
      node.prev_sibling_key, node.next_sibling_key>>

StagingFrame(pre, post, h) ==
    /\ ~is_valid(post, h)
    /\ sm_contains(post.arena, h)
    /\ ~sm_contains(pre.arena, h)
    /\ post.observer = <<>>
    /\ post.root_key = pre.root_key
    /\ ValidKeys(post) = ValidKeys(pre)
    /\ \A k \in ValidKeys(pre) : LinkFields(Node(post, k)) = LinkFields(Node(pre, k))
    /\ pre.root_key # None => traverse(post, pre.root_key) = traverse(pre, pre.root_key)

\* C9: a step append_with_transaction or prepend_with_transaction only
\* allocates: the handle it returns is not valid, no event is emitted, no
\* link field of a valid node changes and the traversal from the root is the
\* same before and after; and in every step each handle staged in the open
\* transaction is still not valid afterwards.
C9_StagingOnlyAllocates ==
    [][/\ last'.op \in {"append_with_transaction", "prepend_with_transaction"} =>
             StagingFrame(Cur, Nxt, last'.key)
       /\ \A h \in StagedKeys(transaction'.entries) : ~is_valid(Nxt, h)]_vars

\* a second node was staged, under the first staged node
C9_Witness ==
    /\ last.op \in {"append_with_transaction", "prepend_with_transaction"}
    /\ Len(transaction.entries) >= 2
    /\ transaction.entries[Len(transaction.entries)][2] = last.key
    /\ last.arg = transaction.entries[1][2]

----------------------------------------------------------------------------
(* C10 *)

\* C10: right after commit of a transaction with at least one staged node
\* the observer has received exactly one event, SubtreeAddedOrReattached of
\* the first staged handle, and at the moment it was emitted that handle was
\* valid and linked and every staged node was in the subtree under it.
C10_CommitEmitsOneEvent ==
    (last.op = "commit" /\ last.entries # <<>>) =>
        /\ Len(observer) = 1
        /\ observer[1].event = SubtreeAddedOrReattached(last.entries[1][2])
        /\ observer[1].seen.valid
        /\ observer[1].seen.linked
        /\ observer[1].seen.parent = last.entries[1][1]
        /\ observer[1].seen.size = Len(last.entries)
        /\ observer[1].seen.count = node_count(Cur)

\* three staged nodes were committed, not all in one chain
C10_Witness ==
    /\ last.op = "commit"
    /\ Len(last.entries) = 3
    /\ last.entries[2][1] = last.entries[1][2]
    /\ last.entries[3][1] = last.entries[1][2]
    /\ Len(observer) = 1

----------------------------------------------------------------------------
(* C11 *)

RollbackPost(pre, post, entries) ==
    /\ \A h \in StagedKeys(entries) : ~sm_contains(post.arena, h)
    /\ post.observer = <<>>
    /\ post.root_key = pre.root_key
    /\ ValidKeys(post) = ValidKeys(pre)
    /\ \A k \in ValidKeys(pre) : Node(post, k) = Node(pre, k)
    /\ pre.root_key # None => traverse(post, pre.root_key) = traverse(pre, pre.root_key)
    /\ node_count(post) = node_count(pre) - Len(entries)
    /\ node_count(post) = Cardinality(ValidKeys(pre))

\* C11: a step rollback(txn) frees every slot staged in txn, emits no event
\* and leaves every valid node, link fields and component links, as it was;
\* the staging steps left the valid nodes alone too (C9), so the tree is the
\* one from before them, and node_count is back at the number of valid
\* nodes, its value before the staging calls.
C11_RollbackFrame ==
    [][last'.op = "rollback" => RollbackPost(Cur, Nxt, transaction.entries)]_vars

\* two staged nodes were rolled back beside a tree of two nodes
C11_Witness ==
    /\ last.op = "rollback"
    /\ Len(last.entries) = 2
    /\ StagedKeys(last.entries) \subseteq freed
    /\ node_count(Cur) = 2

----------------------------------------------------------------------------
(* C12 *)

\* the events of an observer record, without what was seen at the time
EventsOf(obs) == [i \in 1..Len(obs) |-> obs[i].event]

\* C12: a step remove(k) notifies the observer exactly once, of
\* SubtreeAboutToBeRemoved(k), and at that moment the scene is still the one
\* from before the step: k is valid and linked under its parent, its subtree
\* is whole and no slot has been freed.
C12_RemoveEmitsOneEventFirst ==
    [][last'.op = "remove" =>
          /\ EventsOf(observer') = <<SubtreeAboutToBeRemoved(last'.arg)>>
          /\ observer'[1].seen = Seen(Cur, last'.arg)
          /\ observer'[1].seen.valid
          /\ observer'[1].seen.linked
          /\ observer'[1].seen.size = Cardinality(SubtreeKeys(Cur, last'.arg))
          /\ observer'[1].seen.count = node_count(Cur)]_vars

\* a node with two descendants was removed
C12_Witness ==
    /\ last.op = "remove"
    /\ Len(observer) = 1
    /\ observer[1].seen.size = 3
    /\ node_count(Cur) = observer[1].seen.count - 3

----------------------------------------------------------------------------
(* C13 *)

DetachedEvents(cs) == [i \in 1..Len(cs) |-> SubtreeAboutToBeTemporarilyDetached(cs[i])]

AddedEvents(cs) == [i \in 1..Len(cs) |-> SubtreeAddedOrReattached(cs[i])]

\* C13: a step remove_without_children(k), k with the children C1..Cn in
\* sibling order, notifies the observer of exactly
\* SubtreeAboutToBeTemporarilyDetached(C1..Cn), SubtreeAboutToBeRemoved(k),
\* SubtreeAddedOrReattached(C1..Cn), in this order; of
\* SubtreeAboutToBeRemoved(k) alone when n = 0.
C13_RemoveWithoutChildrenEvents ==
    [][last'.op = "remove_without_children" =>
          EventsOf(observer') =
              DetachedEvents(Children(Cur, last'.arg))
              \o <<SubtreeAboutToBeRemoved(last'.arg)>>
              \o AddedEvents(Children(Cur, last'.arg))]_vars

\* a node with two children was removed without them
C13_Witness ==
    /\ last.op = "remove_without_children"
    /\ Len(observer) = 5
    /\ observer[3].event = SubtreeAboutToBeRemoved(last.arg)

----------------------------------------------------------------------------
(* C14 *)

\* C14: a step insert_under(P, n), P with the children C1..Cn in sibling
\* order, notifies the observer of SubtreeAboutToBeTemporarilyDetached(C1..Cn)
\* in order, each while the scene is still the one from before the step, and
\* then of SubtreeAddedOrReattached(new) once, with the new node linked and
\* the children below it; of nothing else.
C14_InsertUnderEvents ==
    [][last'.op = "insert_under" =>
          /\ EventsOf(observer') =
                DetachedEvents(Children(Cur, last'.arg))
                \o <<SubtreeAddedOrReattached(last'.key)>>
          /\ \A i \in 1..Len(Children(Cur, last'.arg)) :
                /\ observer'[i].seen = Seen(Cur, Children(Cur, last'.arg)[i])
                /\ observer'[i].seen.parent = last'.arg
                /\ observer'[i].seen.linked
          /\ observer'[Len(observer')].seen = Seen(Nxt, last'.key)
          /\ observer'[Len(observer')].seen.linked]_vars

\* a node was inserted under a parent of two children
C14_Witness ==
    /\ last.op = "insert_under"
    /\ Len(observer) = 3
    /\ observer[3].seen.size >= 3

----------------------------------------------------------------------------
(* C15 *)

SingleNodeOps == {"set_root", "append", "prepend", "insert_before", "insert_after"}

\* C15: a step set_root, append, prepend, insert_before or insert_after
\* links the new node the same way whether or not an observer is installed
\* and, with one installed, notifies it exactly once, of
\* SubtreeAddedOrReattached(new handle), when the node is already linked; a
\* step mark_dirty(node, flags) changes no node, link or root and, with an
\* observer installed, notifies it exactly once, of Dirty(node, flags) with
\* the flag word as passed; without an observer nothing is notified.
C15_SingleNodeEvents ==
    [][/\ last'.op \in SingleNodeOps =>
             /\ is_valid(Nxt, last'.key)
             /\ last'.op = "set_root" => root_key' = last'.key
             /\ last'.op # "set_root" =>
                   InsertionPost(Cur, Nxt, last'.op, last'.arg, last'.key)
             /\ has_observer =>
                   /\ EventsOf(observer') = <<SubtreeAddedOrReattached(last'.key)>>
                   /\ observer'[1].seen = Seen(Nxt, last'.key)
                   /\ observer'[1].seen.valid
                   /\ last'.op # "set_root" => observer'[1].seen.linked
       /\ last'.op = "mark_dirty" =>
             /\ arena' = arena
             /\ root_key' = root_key
             /\ has_observer =>
                   EventsOf(observer') = <<Dirty(last'.arg[1], last'.arg[2])>>
       /\ ~has_observer' => observer' = <<>>]_vars

\* a flag word of thirty-one bits went through mark_dirty for a node with
\* an older sibling, in a scene whose observer was installed by set_observer
C15_Witness ==
    /\ last.op = "mark_dirty"
    /\ has_observer
    /\ Len(observer) = 1
    /\ observer[1].event.flags = 2147483647
    /\ observer[1].seen.linked
    /\ Node(Cur, observer[1].event.key).prev_sibling_key # None

----------------------------------------------------------------------------
(* C16 *)

RemovedEvents(cs) == [i \in 1..Len(cs) |-> SubtreeAboutToBeRemoved(cs[i])]

RemoveChildrenPost(pre, post, n, ret_links) ==
    /\ EventsOf(post.observer) = RemovedEvents(Children(pre, n))
    /\ ret_links = [i \in 1..Len(Children(pre, n)) |-> Node(pre, Children(pre, n)[i]).comp_links]
    /\ is_valid(post, n)
    /\ Children(post, n) = <<>>
    /\ Node(post, n).first_child_key = None
    /\ Node(post, n).last_child_key = None
    /\ ValidKeys(post) = ValidKeys(pre) \ (SubtreeKeys(pre, n) \ {n})
    /\ \A d \in SubtreeKeys(pre, n) \ {n} : ~sm_contains(post.arena, d)
    /\ node_count(post) = node_count(pre) - (Cardinality(SubtreeKeys(pre, n)) - 1)

\* C16: a step remove_children(n) on a valid n removes every direct child
\* of n with its whole subtree, notifies one SubtreeAboutToBeRemoved per
\* direct child in sibling order, returns the children's component links in
\* that order and leaves n valid without children; a step clear() does the
\* same for the root, returns the empty sequence and changes nothing when
\* the root has no children or there is no root, and leaves a root valid.
C16_RemoveChildrenAndClear ==
    [][/\ last'.op = "remove_children" =>
             RemoveChildrenPost(Cur, Nxt, last'.arg, last'.links)
       /\ last'.op = "clear" =>
             /\ root_key' = root_key
             /\ root_key # None =>
                   /\ RemoveChildrenPost(Cur, Nxt, root_key, last'.links)
                   /\ Children(Cur, root_key) = <<>> =>
                         (last'.links = <<>> /\ arena' = arena /\ observer' = <<>>)
             /\ root_key = None =>
                   (last'.links = <<>> /\ arena' = arena /\ observer' = <<>>)]_vars

\* two children, one of them with a child of its own, were removed at once
C16_Witness ==
    /\ last.op = "remove_children"
    /\ Len(last.links) = 2
    /\ last.links[1] # last.links[2]
    /\ Len(observer) = 2
    /\ observer[1].seen.size + observer[2].seen.size = 3
    /\ is_valid(Cur, last.arg)

----------------------------------------------------------------------------
(* C17 *)

\* depth-first pre-order of the forest made of k and its later siblings, by
\* recursion over first_child_key and next_sibling_key
RECURSIVE PreOrderFrom(_, _, _, _)
PreOrderFrom(s, k, depth, fuel) ==
    IF k = None \/ fuel = 0 THEN <<>>
    ELSE <<<<k, depth>>>>
         \o PreOrderFrom(s, Node(s, k).first_child_key, depth + 1, fuel - 1)
         \o PreOrderFrom(s, Node(s, k).next_sibling_key, depth, fuel - 1)

SubtreeOrder(s, start) ==
    <<<<start, 0>>>> \o PreOrderFrom(s, Node(s, start).first_child_key, 1, NSlots)

TraverseOK(s, start) ==
    /\ traverse(s, start) = SubtreeOrder(s, start)
    /\ RSGIter_next(s, start, <<"AcceptAndVisitChildren", start, 0>>, <<>>, 2 * IterFuel)
          = traverse(s, start)
    /\ Cardinality(SubtreeKeys(s, start)) = Len(traverse(s, start))
    /\ traverse(s, start)[1] = <<start, 0>>
    /\ \A i \in 2..Len(traverse(s, start)) :
          /\ traverse(s, start)[i][2] >= 1
          /\ Len(ancestors(s, traverse(s, start)[i][1])) >= traverse(s, start)[i][2]
          /\ ancestors(s, traverse(s, start)[i][1])[traverse(s, start)[i][2]] = start

\* C17: in every reachable tree and for every valid start node,
\* traverse(start) ends and yields exactly the nodes of the subtree rooted
\* at start, each once, in depth-first pre-order with children in sibling
\* order, each paired with its distance from start; start comes first with
\* depth 0 and every other node yielded has start as its ancestor at that
\* distance, so no sibling and no ancestor of start is yielded.
C17_TraversePreOrder ==
    \A start \in ValidKeys(Cur) : TraverseOK(Cur, start)

\* a start node with a child of its own and a later sibling
C17_Witness ==
    \E start \in ValidKeys(Cur) :
        /\ Node(Cur, start).next_sibling_key # None
        /\ Len(traverse(Cur, start)) = 2
        /\ traverse(Cur, start)[2][2] = 1
        /\ Len(traverse(Cur, root_key)) = 4

----------------------------------------------------------------------------
(* C18 *)

\* C18: in every reachable tree and for every valid node n, ancestors(n)
\* starts with n's parent, each next element is the parent of the one
\* before, and the last element has no parent; it is empty for the root;
\* ancestors_with_node(n) is n followed by ancestors(n).
C18_AncestorChain ==
    \A n \in ValidKeys(Cur) :
        /\ Node(Cur, n).parent_key = None <=> ancestors(Cur, n) = <<>>
        /\ n = root_key => ancestors(Cur, n) = <<>>
        /\ ancestors(Cur, n) # <<>> =>
              /\ ancestors(Cur, n)[1] = Node(Cur, n).parent_key
              /\ \A i \in 1..(Len(ancestors(Cur, n)) - 1) :
                    ancestors(Cur, n)[i + 1] = Node(Cur, ancestors(Cur, n)[i]).parent_key
              /\ Node(Cur, ancestors(Cur, n)[Len(ancestors(Cur, n))]).parent_key = None
        /\ ancestors_with_node(Cur, n) = <<n>> \o ancestors(Cur, n)

\* a node three levels below the root
C18_Witness ==
    \E n \in ValidKeys(Cur) :
        /\ Len(ancestors(Cur, n)) = 3
        /\ ancestors(Cur, n)[3] = root_key
        /\ Len(ancestors_with_node(Cur, n)) = 4

----------------------------------------------------------------------------
(* C19 *)

\* C19: in every reachable state no handle whose slot was freed, by remove,
\* remove_without_children, remove_children, clear or rollback, is valid or
\* found in the arena, whatever was inserted since and whichever slots were
\* reused: a stale handle never names a newer node.
C19_StaleHandlesStayInvalid ==
    \A h \in freed :
        /\ ~is_valid(Cur, h)
        /\ ~sm_contains(arena, h)
        /\ \A k \in sm_keys(arena) : k # h

\* a slot freed twice holds its third node, which is valid
C19_Witness ==
    \E h \in freed : \E g \in freed : \E k \in ValidKeys(Cur) :
        /\ h # g
        /\ h[1] = g[1]
        /\ k[1] = h[1]

----------------------------------------------------------------------------
(* C20 *)

\* the first node from k up that carries a transform; None when a node with
\* a layer and no transform, or the end of the chain, comes first
RECURSIVE TransformAncestor(_, _, _)
TransformAncestor(s, k, fuel) ==
    IF k = None \/ fuel = 0 THEN None
    ELSE IF Node(s, k).comp_links.transform_key # None THEN k
    ELSE IF Node(s, k).comp_links.layer_key # None THEN None
    ELSE TransformAncestor(s, Node(s, k).parent_key, fuel - 1)

\* the transform component of node k in the list transforms
TransformOf(transforms, s, k) == sm_get(transforms, Node(s, k).comp_links.transform_key)

WorldIsLocalTimesAncestor(transforms, s, N, A) ==
    TransformOf(transforms, s, N).world_transform =
        IF A = None THEN TransformOf(transforms, s, N).local_transform
        ELSE Mat4_mul(TransformOf(transforms, s, N).local_transform,
                      TransformOf(transforms, s, A).world_transform)

\* C20: after a step of the transform pass over a list of dirty subtree
\* roots, every node N with a transform in the subtree of one of the roots
\* has world = local(N) * world(A), local on the left, A being the first
\* node with a transform met from N's parent upwards, the walk ending
\* without A at a node that has a layer and no transform or at the end of
\* the chain; without A, world = local(N).  Local matrices are unchanged.
C20_WorldIsLocalTimesAncestorWorld ==
    [][last'.op = "update_world_transforms" =>
          \A i \in 1..Len(last'.arg) :
             \A N \in SubtreeKeys(Cur, last'.arg[i]) :
                Node(Cur, N).comp_links.transform_key # None =>
                   /\ WorldIsLocalTimesAncestor(
                          components'.transforms, Cur, N,
                          TransformAncestor(Cur, Node(Cur, N).parent_key, NSlots))
                   /\ TransformOf(components'.transforms, Cur, N).local_transform
                         = TransformOf(components.transforms, Cur, N).local_transform]_vars

\* after a pass over the root, a node's world matrix is its local matrix
\* times the world matrix of its grandparent, the parent between them
\* carrying neither a transform nor a layer
C20_Witness ==
    /\ last.op = "update_world_transforms"
    /\ last.arg = <<root_key>>
    /\ \E N \in ValidKeys(Cur) :
          /\ Node(Cur, N).comp_links.transform_key # None
          /\ Node(Cur, N).parent_key # None
          /\ Node(Cur, Node(Cur, N).parent_key).comp_links.transform_key = None
          /\ Node(Cur, Node(Cur, N).parent_key).comp_links.layer_key = None
          /\ Len(TransformOf(components.transforms, Cur, N).world_transform) = 2

----------------------------------------------------------------------------
(* C21 *)

\* the first node from k up that carries an opacity; None when a node with
\* a layer and no opacity, or the end of the chain, comes first
RECURSIVE OpacityAncestor(_, _, _)
OpacityAncestor(s, k, fuel) ==
    IF k = None \/ fuel = 0 THEN None
    ELSE IF Node(s, k).comp_links.opacity_key # None THEN k
    ELSE IF Node(s, k).comp_links.layer_key # None THEN None
    ELSE OpacityAncestor(s, Node(s, k).parent_key, fuel - 1)

\* the opacity component of node k in the list opacities
OpacityOf(opacities, s, k) == sm_get(opacities, Node(s, k).comp_links.opacity_key)

InheritedIsOwnTimesAncestor(opacities, s, N, A) ==
    OpacityOf(opacities, s, N).inherited_opacity =
        IF A = None THEN OpacityOf(opacities, s, N).opacity
        ELSE f32_mul(OpacityOf(opacities, s, N).opacity,
                     OpacityOf(opacities, s, A).inherited_opacity)

\* the product of the opacities on the chain from k up to the boundary
RECURSIVE ChainOpacity(_, _, _, _)
ChainOpacity(opacities, s, k, fuel) ==
    IF k = None \/ fuel = 0 THEN OpacityOne
    ELSE IF Node(s, k).comp_links.opacity_key # None
    THEN f32_mul(OpacityOf(opacities, s, k).opacity,
                 ChainOpacity(opacities, s, Node(s, k).parent_key, fuel - 1))
    ELSE IF Node(s, k).comp_links.layer_key # None THEN OpacityOne
    ELSE ChainOpacity(opacities, s, Node(s, k).parent_key, fuel - 1)

\* C21: after a step of the opacity pass over a list of dirty subtree roots,
\* every node N with an opacity in the subtree of one of the roots has
\* inherited_opacity = opacity(N) * inherited_opacity(A), A being the first
\* node with an opacity met from N's parent upwards, the walk ending without
\* A at a node that has a layer and no opacity or at the end of the chain;
\* without A, inherited_opacity = opacity(N).  When the root of the scene is
\* one of the dirty roots, the inherited opacity of every node with an
\* opacity is the product of the opacities on its chain up to the boundary.
\* The opacities themselves are unchanged.
C21_InheritedOpacityIsProduct ==
    [][last'.op = "update_inherited_opacities" =>
          /\ \A i \in 1..Len(last'.arg) :
                \A N \in SubtreeKeys(Cur, last'.arg[i]) :
                   Node(Cur, N).comp_links.opacity_key # None =>
                      /\ InheritedIsOwnTimesAncestor(
                             components'.opacities, Cur, N,
                             OpacityAncestor(Cur, Node(Cur, N).parent_key, NSlots))
                      /\ OpacityOf(components'.opacities, Cur, N).opacity
                            = OpacityOf(components.opacities, Cur, N).opacity
          /\ (\E i \in 1..Len(last'.arg) : last'.arg[i] = root_key) =>
                \A N \in ValidKeys(Cur) :
                   Node(Cur, N).comp_links.opacity_key # None =>
                      OpacityOf(components'.opacities, Cur, N).inherited_opacity
                         = ChainOpacity(components'.opacities, Cur, N, NSlots)]_vars

\* after a pass over the root, a node's inherited opacity is its opacity
\* times the inherited opacity of its grandparent, the parent between them
\* carrying neither an opacity nor a layer, and below both opacities
C21_Witness ==
    /\ last.op = "update_inherited_opacities"
    /\ last.arg = <<root_key>>
    /\ \E N \in ValidKeys(Cur) :
          /\ Node(Cur, N).comp_links.opacity_key # None
          /\ Node(Cur, N).parent_key # None
          /\ Node(Cur, Node(Cur, N).parent_key).comp_links.opacity_key = None
          /\ Node(Cur, Node(Cur, N).parent_key).comp_links.layer_key = None
          /\ Node(Cur, root_key).comp_links.opacity_key # None
          /\ OpacityOf(components.opacities, Cur, N).inherited_opacity
                < OpacityOf(components.opacities, Cur, N).opacity
          /\ OpacityOf(components.opacities, Cur, N).inherited_opacity
                < OpacityOf(components.opacities, Cur, root_key).opacity

----------------------------------------------------------------------------
(* C22 - C25: render lists *)

\* the number of nodes the traversal of build_render_lists from start
\* visits: up to the first node other than start that has a layer
VisitedLen(s, start) ==
    IF \E i \in 1..Len(SubtreeOrder(s, start)) :
          /\ SubtreeOrder(s, start)[i][1] # start
          /\ Node(s, SubtreeOrder(s, start)[i][1]).comp_links.layer_key # None
    THEN CHOOSE i \in 1..Len(SubtreeOrder(s, start)) :
            /\ SubtreeOrder(s, start)[i][1] # start
            /\ Node(s, SubtreeOrder(s, start)[i][1]).comp_links.layer_key # None
            /\ \A j \in 1..(i - 1) :
                  \/ SubtreeOrder(s, start)[j][1] = start
                  \/ Node(s, SubtreeOrder(s, start)[j][1]).comp_links.layer_key = None
    ELSE Len(SubtreeOrder(s, start))

\* the keys of the nodes with a mesh among the first n of a pre-order
RECURSIVE MeshKeys(_, _, _)
MeshKeys(s, order, n) ==
    IF n = 0 THEN <<>>
    ELSE MeshKeys(s, order, n - 1)
         \o (IF Node(s, order[n][1]).comp_links.mesh_key # None
             THEN <<order[n][1]>> ELSE <<>>)

\* the visited nodes with a mesh, in traversal order
VisitedMeshes(s, start) == MeshKeys(s, SubtreeOrder(s, start), VisitedLen(s, start))

\* the 0-based place of key k in a sequence of keys
RankIn(seq, k) == (CHOOSE i \in 1..Len(seq) : seq[i] = k) - 1

KeysOf(list) == {list[i][1] : i \in 1..Len(list)}

\* translucent: an opacity component with inherited opacity below 1, or a
\* material with blend_enable set
Translucent(c, s, k) ==
    \/ /\ Node(s, k).comp_links.opacity_key # None
       /\ OpacityOf(c.opacities, s, k).inherited_opacity < OpacityOne
    \/ /\ Node(s, k).comp_links.material_key # None
       /\ c.material_data[Node(s, k).comp_links.material_key[1]].value.blend_enable

\* every entry of list carries the rank of its node among the visited meshes
RanksCarried(list, meshes) ==
    \A i \in 1..Len(list) :
       /\ \E j \in 1..Len(meshes) : meshes[j] = list[i][1]
       /\ list[i][2] = RankIn(meshes, list[i][1])

\* C22: after build_render_lists without a camera, every entry of the two
\* lists carries the 0-based rank of its node among the visited nodes with a
\* mesh in traversal order, one count for both lists; opaque_list holds the
\* opaque ones, later in the traversal first, and alpha_list the translucent
\* ones in traversal order.
C22_Lists2DInTreeOrder ==
    (last.op = "build_render_lists" /\ last.arg.camera_properties_3d = None) =>
       /\ RanksCarried(opaque_list, VisitedMeshes(Cur, last.arg.start_node_key))
       /\ RanksCarried(alpha_list, VisitedMeshes(Cur, last.arg.start_node_key))
       /\ \A i \in 1..(Len(opaque_list) - 1) : opaque_list[i][2] > opaque_list[i + 1][2]
       /\ \A i \in 1..(Len(alpha_list) - 1) : alpha_list[i][2] < alpha_list[i + 1][2]
       /\ \A i \in 1..Len(VisitedMeshes(Cur, last.arg.start_node_key)) :
             IF Translucent(components, Cur, VisitedMeshes(Cur, last.arg.start_node_key)[i])
             THEN VisitedMeshes(Cur, last.arg.start_node_key)[i] \in KeysOf(alpha_list)
             ELSE VisitedMeshes(Cur, last.arg.start_node_key)[i] \in KeysOf(opaque_list)

\* two opaque nodes and a translucent one between them in the traversal:
\* the opaque list is <<third, first>> with ranks 2 and 0, the alpha list
\* has rank 1
C22_Witness ==
    /\ last.op = "build_render_lists"
    /\ last.arg.camera_properties_3d = None
    /\ Len(opaque_list) = 2
    /\ Len(alpha_list) = 1
    /\ opaque_list[1][2] = 2
    /\ opaque_list[2][2] = 0
    /\ alpha_list[1][2] = 1

C25_NothingBelowALayer ==
    last.op = "build_render_lists" =>
       \A k \in KeysOf(opaque_list) \cup KeysOf(alpha_list) :
          /\ k \in SubtreeKeys(Cur, last.arg.start_node_key)
          /\ \A i \in 1..Len(ancestors(Cur, k)) :
                (/\ ancestors(Cur, k)[i] # last.arg.start_node_key
                 /\ ancestors(Cur, k)[i] \in SubtreeKeys(Cur, last.arg.start_node_key))
                => Node(Cur, ancestors(Cur, k)[i]).comp_links.layer_key = None

\* a layer with a mesh below the start node is listed, its child with a
\* mesh is not
C25_Witness ==
    /\ last.op = "build_render_lists"
    /\ \E k \in ValidKeys(Cur) :
          /\ Node(Cur, k).comp_links.mesh_key # None
          /\ Node(Cur, k).parent_key # None
          /\ Node(Cur, k).parent_key # last.arg.start_node_key
          /\ Node(Cur, k).parent_key \in KeysOf(opaque_list)
          /\ Node(Cur, Node(Cur, k).parent_key).comp_links.layer_key # None
          /\ k \notin KeysOf(opaque_list) \cup KeysOf(alpha_list)

----------------------------------------------------------------------------
(* C23 *)

NonDecreasing(list) == \A i \in 1..(Len(list) - 1) : list[i][2] <= list[i + 1][2]

NonIncreasing(list) == \A i \in 1..(Len(list) - 1) : list[i][2] >= list[i + 1][2]

\* the lists as they are when the traversal of the last call has handled
\* its first n nodes
ListsAfter(n) ==
    build_render_lists_loop(
        components, Cur, last.arg.start_node_key, last.arg.camera_properties_3d,
        SubSeq(traverse(Cur, last.arg.start_node_key), 1, n),
        [opaque_list |-> <<>>, alpha_list |-> <<>>, stacking_order_2d |-> 0],
        last.arg.tie)

\* C23: after build_render_lists with a camera, opaque_list is in
\* non-decreasing and alpha_list in non-increasing order of sort distance,
\* equal distances included, and so are the lists after every insertion of
\* the call; every listed distance is that of its node.
C23_Lists3DSorted ==
    (last.op = "build_render_lists" /\ last.arg.camera_properties_3d # None) =>
       /\ NonDecreasing(opaque_list)
       /\ NonIncreasing(alpha_list)
       /\ \A n \in 0..Len(traverse(Cur, last.arg.start_node_key)) :
             /\ NonDecreasing(ListsAfter(n).opaque_list)
             /\ NonIncreasing(ListsAfter(n).alpha_list)
       /\ ListsAfter(Len(traverse(Cur, last.arg.start_node_key))).opaque_list = opaque_list
       /\ ListsAfter(Len(traverse(Cur, last.arg.start_node_key))).alpha_list = alpha_list
       /\ \A i \in 1..Len(opaque_list) :
             opaque_list[i][2] = calculate_sorting_distance(
                 TransformOf(components.transforms, Cur, opaque_list[i][1]).world_transform,
                 BoundsFor(Node(Cur, opaque_list[i][1]).comp_links.mesh_key),
                 last.arg.camera_properties_3d)

\* an alpha list of three nodes, the last two at the same distance and
\* nearer than the first
C23_Witness ==
    /\ last.op = "build_render_lists"
    /\ last.arg.camera_properties_3d # None
    /\ Len(alpha_list) = 3
    /\ alpha_list[1][2] > alpha_list[2][2]
    /\ alpha_list[2][2] = alpha_list[3][2]

----------------------------------------------------------------------------
(* C26, C27: the canonical observer *)

\* the list of the observer o that belongs to a dirty bit
DirtyListOf(o, bit) ==
    IF bit = RSGDirtyFlags_TRANSFORM THEN o.dirty_world_roots
    ELSE IF bit = RSGDirtyFlags_OPACITY THEN o.dirty_opacity_roots
    ELSE IF bit = RSGDirtyFlags_MATERIAL THEN o.dirty_material_nodes
    ELSE IF bit = RSGDirtyFlags_MATERIAL_VALUES THEN o.dirty_material_value_nodes
    ELSE o.dirty_mesh_nodes

DirtyBits ==
    {RSGDirtyFlags_TRANSFORM, RSGDirtyFlags_OPACITY, RSGDirtyFlags_MATERIAL,
     RSGDirtyFlags_MATERIAL_VALUES, RSGDirtyFlags_MESH}

\* C26: on Dirty(k, flags) the canonical observer appends k to every list
\* whose bit is set in flags and to no other list, whatever the flags.
C26_DirtyBitsIndependent ==
    [][(last'.op = "notify" /\ last'.arg.type = "Dirty") =>
          \A bit \in DirtyBits :
             DirtyListOf(scene_observer', bit) =
                IF HasBit(last'.arg.flags, bit)
                THEN Append(DirtyListOf(scene_observer, bit), last'.arg.key)
                ELSE DirtyListOf(scene_observer, bit)]_vars

\* C27: with the events received since new() or the last reset(): changed
\* is true exactly when there is one; hierarchy_changed is true exactly when
\* one of them is SubtreeAddedOrReattached or SubtreeAboutToBeRemoved;
\* SubtreeAddedOrReattached(k) appends k to each of the five lists;
\* SubtreeAboutToBeTemporarilyDetached and SubtreeAboutToBeRemoved leave the
\* five lists as they are; reset() leaves the observer as new() makes it.
C27_ObserverFlagsAndLists ==
    /\ [](/\ scene_observer.changed = (received # <<>>)
          /\ scene_observer.hierarchy_changed =
                (\E i \in 1..Len(received) :
                    received[i].type \in {"SubtreeAddedOrReattached",
                                          "SubtreeAboutToBeRemoved"}))
    /\ [][/\ (last'.op = "notify" /\ last'.arg.type = "SubtreeAddedOrReattached") =>
                \A bit \in DirtyBits :
                   DirtyListOf(scene_observer', bit)
                      = Append(DirtyListOf(scene_observer, bit), last'.arg.key)
          /\ (/\ last'.op = "notify"
              /\ last'.arg.type \in {"SubtreeAboutToBeTemporarilyDetached",
                                     "SubtreeAboutToBeRemoved"}) =>
                \A bit \in DirtyBits :
                   DirtyListOf(scene_observer', bit) = DirtyListOf(scene_observer, bit)
          /\ last'.op = "reset" => scene_observer' = RSGSceneObserver_new]_vars

\* a removal has been received after a temporary detach: no list has grown,
\* hierarchy_changed is set
C27_Witness ==
    /\ Len(received) = 2
    /\ received[1].type = "SubtreeAboutToBeTemporarilyDetached"
    /\ received[2].type = "SubtreeAboutToBeRemoved"
    /\ scene_observer.changed
    /\ scene_observer.hierarchy_changed
    /\ scene_observer.dirty_world_roots = <<>>

----------------------------------------------------------------------------
(* C28: the component store's remove *)

\* whether k resolves to a record of the primary list sm
Resolves(sm, k) == sm_contains(sm, k)

\* every record of the list sm but that of handle stays as it is in sm2
OthersKept(sm, sm2, handle) ==
    \A k \in sm_keys(sm) \ {handle} : sm_contains(sm2, k) /\ sm_get(sm2, k) = sm_get(sm, k)

\* every record of the secondary map sec but that of handle stays as it is
OthersKeptSec(sec, sec2, handle) ==
    \A i \in Slots :
       (sec[i].version > 0 /\ <<i, sec[i].version>> # handle) => sec2[i] = sec[i]

\* C28: after store.remove(links) no non-empty handle of links resolves to a
\* record in any container of the store, the material data and the mesh
\* data included, and the records of all other handles are as before.
C28_StoreRemoveLeavesNoRecord ==
    [][last'.op = "store_remove" =>
         /\ ~ Resolves(components'.transforms, last'.arg.transform_key)
         /\ ~ Resolves(components'.opacities, last'.arg.opacity_key)
         /\ ~ Resolves(components'.materials, last'.arg.material_key)
         /\ ~ Resolves(components'.meshes, last'.arg.mesh_key)
         /\ ~ Resolves(components'.layers, last'.arg.layer_key)
         /\ ~ sec_contains(components'.material_data, last'.arg.material_key)
         /\ ~ sec_contains(components'.mesh_data, last'.arg.mesh_key)
         /\ OthersKept(components.transforms, components'.transforms, last'.arg.transform_key)
         /\ OthersKept(components.opacities, components'.opacities, last'.arg.opacity_key)
         /\ OthersKept(components.materials, components'.materials, last'.arg.material_key)
         /\ OthersKept(components.meshes, components'.meshes, last'.arg.mesh_key)
         /\ OthersKept(components.layers, components'.layers, last'.arg.layer_key)
         /\ OthersKeptSec(components.material_data, components'.material_data,
                          last'.arg.material_key)
         /\ OthersKeptSec(components.mesh_data, components'.mesh_data,
                          last'.arg.mesh_key)]_vars

\* what the store's remove does do: the five primary lists lose the handles
\* and keep every other record
StoreRemovePrimaryOnly ==
    [][last'.op = "store_remove" =>
         /\ ~ Resolves(components'.transforms, last'.arg.transform_key)
         /\ ~ Resolves(components'.opacities, last'.arg.opacity_key)
         /\ ~ Resolves(components'.materials, last'.arg.material_key)
         /\ ~ Resolves(components'.meshes, last'.arg.mesh_key)
         /\ ~ Resolves(components'.layers, last'.arg.layer_key)
         /\ OthersKept(components.transforms, components'.transforms, last'.arg.transform_key)
         /\ OthersKept(components.opacities, components'.opacities, last'.arg.opacity_key)
         /\ OthersKept(components.materials, components'.materials, last'.arg.material_key)
         /\ OthersKept(components.meshes, components'.meshes, last'.arg.mesh_key)
         /\ OthersKept(components.layers, components'.layers, last'.arg.layer_key)
         /\ components'.material_data = components.material_data
         /\ components'.mesh_data = components.mesh_data]_vars

----------------------------------------------------------------------------
(* C29: component links round-trip through the tree *)

InsertOps == {"append", "prepend", "insert_before", "insert_after"}

\* C29: remove(k) returns exactly the links stored on k when it is called;
\* a node inserted with given links, those a preceding remove returned
\* among them, reports these links; and no append, prepend, insert or remove changes the links
\* of a node that is live before and after it.
C29_LinksRoundTrip ==
    [][/\ last'.op = "remove" =>
             last'.links = <<get_component_links(Cur, last'.arg)>>
       /\ last'.op \in InsertOps =>
             get_component_links(Nxt, last'.key) = last'.arg.comp_links
       /\ \A k \in sm_keys(arena) \cap sm_keys(arena') :
             get_component_links(Nxt, k) = get_component_links(Cur, k)]_vars

\* a node has just been inserted with the links of a node removed before
\* it, next to a node that has links of its own
C29_Witness ==
    /\ last.op \in InsertOps
    /\ \E k \in freed : last.arg.comp_links = LinksFor(k)
    /\ last.arg.comp_links # LinksFor(last.key)
    /\ get_component_links(Cur, last.key) = last.arg.comp_links
    /\ node_count(Cur) >= 3

----------------------------------------------------------------------------
(* C30: programmer errors *)

\* the step ended the program before a slot, a link or an event was produced
TerminatedAtOnce ==
    /\ ~ asserts_ok'
    /\ arena' = arena
    /\ root_key' = root_key
    /\ observer' = <<>>

\* C30: a mutating operation called with a stale handle, a link-mutating
\* operation given a node that is not clean, set_root when a root exists,
\* and remove or remove_without_children of the root each end the program;
\* set_root with a root and the removal of the root end it before any slot,
\* link or event is produced.
C30_ErrorsTerminate ==
    [][/\ (last'.op = "set_root" /\ root_key # None) => TerminatedAtOnce
       /\ (last'.op = "set_root" /\ ~ is_clean(last'.arg.node)) => ~ asserts_ok'
       /\ (/\ last'.op = "append"
           /\ \/ ~ is_clean(last'.arg.node)
              \/ ~ is_valid(Cur, last'.arg.parent_key)) => ~ asserts_ok'
       /\ (/\ last'.op \in {"remove", "remove_without_children"}
           /\ root_key # None
           /\ last'.arg = root_key) => TerminatedAtOnce
       /\ (/\ last'.op \in {"remove", "remove_without_children"}
           /\ ~ is_valid(Cur, last'.arg)) => ~ asserts_ok']_vars

\* what the checks do achieve: with debug assertions every one of these
\* errors ends the program; in every build set_root with a root and the
\* removal of the root end it at once, and a stale handle ends it
ErrorsTerminateInDebugBuilds ==
    [][/\ (last'.op = "set_root" /\ root_key # None) => TerminatedAtOnce
       /\ (last'.op = "set_root" /\ ~ is_clean(last'.arg.node) /\ debug_assertions)
             => ~ asserts_ok'
       /\ (/\ last'.op = "append"
           /\ debug_assertions
           /\ \/ ~ is_clean(last'.arg.node)
              \/ ~ is_valid(Cur, last'.arg.parent_key)) => ~ asserts_ok'
       /\ (last'.op = "append" /\ ~ is_valid(Cur, last'.arg.parent_key)) => ~ asserts_ok'
       /\ (/\ last'.op \in {"remove", "remove_without_children"}
           /\ root_key # None
           /\ last'.arg = root_key) => TerminatedAtOnce
       /\ (/\ last'.op \in {"remove", "remove_without_children"}
           /\ ~ is_valid(Cur, last'.arg)) => ~ asserts_ok']_vars

----------------------------------------------------------------------------
(* C35: an inheritance pass depends on the set of its roots only *)

\* the members of a set of keys as a list, by slot index
RECURSIVE KeysInOrder(_)
KeysInOrder(keys) ==
    IF keys = {} THEN <<>>
    ELSE <<CHOOSE k \in keys : \A j \in keys : k[1] <= j[1]>>
         \o KeysInOrder(keys \ {CHOOSE k \in keys : \A j \in keys : k[1] <= j[1]})

\* the set of the roots of a list
RootSet(subtree_roots) == {subtree_roots[i] : i \in 1..Len(subtree_roots)}

\* C35: the table a pass returns is the one it returns for the roots listed
\* once each in a fixed order, whatever the order of the list, the
\* repetitions in it and the ancestors and descendants listed together;
\* the pass run again on its result with the same roots returns the result;
\* with no roots it returns the table it was given.
C35_PassDependsOnRootSet ==
    [][/\ last'.op = "update_world_transforms" =>
             /\ components'.transforms =
                   update_world_transforms(components.transforms, Cur,
                                           KeysInOrder(RootSet(last'.arg)))
             /\ update_world_transforms(components'.transforms, Nxt, last'.arg)
                   = components'.transforms
             /\ last'.arg = <<>> => components'.transforms = components.transforms
       /\ last'.op = "update_inherited_opacities" =>
             /\ components'.opacities =
                   update_inherited_opacities(components.opacities, Cur,
                                              KeysInOrder(RootSet(last'.arg)))
             /\ update_inherited_opacities(components'.opacities, Nxt, last'.arg)
                   = components'.opacities
             /\ last'.arg = <<>> => components'.opacities = components.opacities]_vars

\* the transform pass has run over a node and then over its parent, in this
\* order, and has given the node a world matrix of two factors
C35_Witness ==
    /\ last.op = "update_world_transforms"
    /\ Len(last.arg) = 2
    /\ Node(Cur, last.arg[1]).parent_key = last.arg[2]
    /\ Len(sm_get(components.transforms,
                  get_component_links(Cur, last.arg[1]).transform_key).world_transform) >= 2

----------------------------------------------------------------------------
(* C39: a layer root as a barrier for inheritance *)

\* the transform table with the local matrix of every node of the list anc
\* that has a transform replaced by m
RECURSIVE WithLocalTransforms(_, _, _, _)
WithLocalTransforms(transforms, s, anc, m) ==
    IF anc = <<>> THEN transforms
    ELSE WithLocalTransforms(
             IF get_component_links(s, Head(anc)).transform_key # None
             THEN [transforms EXCEPT
                     !.slots[get_component_links(s, Head(anc)).transform_key[1]]
                        .value.local_transform = m]
             ELSE transforms,
             s, Tail(anc), m)

\* the opacity table with the opacity of every node of the list anc that
\* has an opacity replaced by o
RECURSIVE WithOpacities(_, _, _, _)
WithOpacities(opacities, s, anc, o) ==
    IF anc = <<>> THEN opacities
    ELSE WithOpacities(
             IF get_component_links(s, Head(anc)).opacity_key # None
             THEN [opacities EXCEPT
                     !.slots[get_component_links(s, Head(anc)).opacity_key[1]]
                        .value.opacity = o]
             ELSE opacities,
             s, Tail(anc), o)

\* the nodes strictly below L
Below(s, L) == {traverse(s, L)[i][1] : i \in 2..Len(traverse(s, L))}

\* the layer roots of the scene
LayerRoots(s) == {k \in ValidKeys(s) : get_component_links(s, k).layer_key # None}

\* another local matrix and another opacity for the ancestors of a layer root
OtherLocal == <<7>>
OtherOpacity == OpacityOne \div 8

\* C39: for a node N strictly below a layer root L, the world transform and
\* the inherited opacity a pass over the whole tree computes for N are the
\* same whatever the local transforms and opacities of the proper ancestors
\* of L are, L carrying a transform or an opacity or not.
C39_LayerRootIsBarrier ==
    [][/\ (last'.op = "update_world_transforms" /\ last'.arg = <<root_key>>) =>
             \A L \in LayerRoots(Cur) : \A N \in Below(Cur, L) :
                get_component_links(Cur, N).transform_key # None =>
                   TransformOf(components'.transforms, Cur, N).world_transform =
                   TransformOf(update_world_transforms(
                                   WithLocalTransforms(components.transforms, Cur,
                                                       ancestors(Cur, L), OtherLocal),
                                   Cur, last'.arg),
                               Cur, N).world_transform
       /\ (last'.op = "update_inherited_opacities" /\ last'.arg = <<root_key>>) =>
             \A L \in LayerRoots(Cur) : \A N \in Below(Cur, L) :
                get_component_links(Cur, N).opacity_key # None =>
                   OpacityOf(components'.opacities, Cur, N).inherited_opacity =
                   OpacityOf(update_inherited_opacities(
                                 WithOpacities(components.opacities, Cur,
                                               ancestors(Cur, L), OtherOpacity),
                                 Cur, last'.arg),
                             Cur, N).inherited_opacity]_vars

\* what does hold: a layer root that carries no transform is a barrier for
\* the transform pass
LayerWithoutTransformIsBarrier ==
    [][(last'.op = "update_world_transforms" /\ last'.arg = <<root_key>>) =>
          \A L \in LayerRoots(Cur) : \A N \in Below(Cur, L) :
             (/\ get_component_links(Cur, N).transform_key # None
              /\ get_component_links(Cur, L).transform_key = None) =>
                TransformOf(components'.transforms, Cur, N).world_transform =
                TransformOf(update_world_transforms(
                                WithLocalTransforms(components.transforms, Cur,
                                                    ancestors(Cur, L), OtherLocal),
                                Cur, last'.arg),
                            Cur, N).world_transform]_vars

----------------------------------------------------------------------------
(* C38: the lists of a layer *)

\* the nodes on the path from start (not included) down to k (included)
PathBelow(s, start, k) ==
    IF k = start THEN {}
    ELSE ({k} \cup {ancestors(s, k)[i] : i \in 1..Len(ancestors(s, k))})
            \cap (SubtreeKeys(s, start) \ {start})

\* the number of entries of list for node k
EntriesOf(list, k) == Cardinality({i \in 1..Len(list) : list[i][1] = k})

ListsCompleteUpToNestedLayer ==
    last.op = "build_render_lists" =>
       \A i \in 1..Len(VisitedMeshes(Cur, last.arg.start_node_key)) :
          EntriesOf(opaque_list, VisitedMeshes(Cur, last.arg.start_node_key)[i])
          + EntriesOf(alpha_list, VisitedMeshes(Cur, last.arg.start_node_key)[i]) = 1

----------------------------------------------------------------------------
(* C40: the parent of a staged entry *)

StagingOps == {"append_with_transaction", "prepend_with_transaction"}

\* C40: with debug assertions on, staging into a transaction that has
\* entries is accepted if the parent is the parent of the transaction's
\* first entry or a handle staged earlier in the transaction, and is
\* rejected for every other parent; staging the first entry is accepted
\* only if the parent is a valid node.
C40_StagedParentChecked ==
    [][(debug_assertions /\ last'.op \in StagingOps) =>
          IF transaction.entries # <<>>
          THEN asserts_ok' <=> (\/ last'.arg = transaction.entries[1][1]
                                \/ last'.arg \in StagedKeys(transaction.entries))
          ELSE asserts_ok' => is_valid(Cur, last'.arg)]_vars

\* what does hold: a later entry is accepted exactly when its parent was
\* staged earlier in the transaction, the first one exactly when its parent
\* is a valid node
StagedParentAmongStaged ==
    [][(debug_assertions /\ last'.op \in StagingOps) =>
          IF transaction.entries # <<>>
          THEN asserts_ok' <=> last'.arg \in StagedKeys(transaction.entries)
          ELSE asserts_ok' <=> is_valid(Cur, last'.arg)]_vars

----------------------------------------------------------------------------
(* C37: the handles in the observer's lists *)

ListKeys(list) == {list[i] : i \in 1..Len(list)}

\* C37: every handle in dirty_world_roots and in dirty_opacity_roots of the
\* canonical observer is a valid node of the scene, at every point between
\* two resets.
C37_DirtyRootsValid ==
    \A k \in ListKeys(scene_observer.dirty_world_roots)
             \cup ListKeys(scene_observer.dirty_opacity_roots) :
       is_valid(Cur, k)

\* what does hold: every handle in the lists was a valid node when it was
\* pushed, so it is one for which the arena has or had a node
DirtyRootsWereNodes ==
    \A k \in ListKeys(scene_observer.dirty_world_roots)
             \cup ListKeys(scene_observer.dirty_opacity_roots) :
       k \in sm_keys(arena) \cup freed

----------------------------------------------------------------------------
(* C36: incremental refresh and full recomputation *)

\* the derived values of the tables are those a pass over the whole tree
\* from the root gives
FullyRefreshed(container, s) ==
    /\ update_world_transforms(container.transforms, s, <<s.root_key>>)
          = container.transforms
    /\ update_inherited_opacities(container.opacities, s, <<s.root_key>>)
          = container.opacities

\* C36: a prepare with the canonical observer's dirty_world_roots and
\* dirty_opacity_roots, after any sequence of tree mutations and reported
\* changes of local values, returns with every transform and opacity record
\* holding the derived value a pass over the whole tree from the root gives.
C36_IncrementalEqualsFull ==
    [][last'.op = "prepare" =>
          /\ asserts_ok'
          /\ FullyRefreshed(components', Nxt)]_vars

----------------------------------------------------------------------------
(* C31 to C34: build_render_lists with the pool *)

\* build_render_lists has just returned
Returned == last.op = "build_render_lists" /\ call.pc = "idle" /\ call.pool > 0

\* the local values of the records of two tables with the same handles agree
SameLocals(a, b) ==
    /\ \A k \in sm_keys(a.transforms) :
          sm_get(a.transforms, k).local_transform = sm_get(b.transforms, k).local_transform
    /\ \A k \in sm_keys(a.opacities) :
          sm_get(a.opacities, k).opacity = sm_get(b.opacities, k).opacity

\* C31: when build_render_lists returns, the transform table and the
\* opacity table of the store hold a record for exactly the handles they
\* held when it was called, with the local values they had and the derived
\* values of the passes: a table whose dirty list was empty is as it was,
\* the other is what its pass leaves.
C31_TablesRestored ==
    Returned =>
       /\ sm_keys(components.transforms) = sm_keys(call.components_in.transforms)
       /\ sm_keys(components.opacities) = sm_keys(call.components_in.opacities)
       /\ SameLocals(components, call.components_in)
       /\ IF call.dirty_world_roots = <<>>
          THEN components.transforms = call.components_in.transforms
          ELSE update_world_transforms(components.transforms, Cur, call.dirty_world_roots)
                  = components.transforms
       /\ IF call.dirty_opacity_roots = <<>>
          THEN components.opacities = call.components_in.opacities
          ELSE update_inherited_opacities(components.opacities, Cur,
                                          call.dirty_opacity_roots)
                  = components.opacities

\* a call without a camera on a scene without a mesh, both lists of roots
\* non-empty: both tables are received after the loop only, and the
\* transform pass changed a record
C31_Witness ==
    /\ Returned
    /\ call.camera_properties_3d = None
    /\ call.dirty_world_roots # <<>>
    /\ call.dirty_opacity_roots # <<>>
    /\ opaque_list = <<>>
    /\ alpha_list = <<>>
    /\ components.transforms # call.components_in.transforms
    /\ sm_keys(components.opacities) # {}

\* C32: every call of build_render_lists on a pool with at least one
\* worker returns: a call in progress leads to the call being over.
C32_CallReturns == (call.pc # "idle") ~> (call.pc = "idle")

\* the main thread waits at opacity_rx.recv() while the opacity job is
\* still in the queue of a pool with one worker
C32_Witness ==
    /\ at_opacity_recv(call, Cur)
    /\ call.pc = "loop"
    /\ call.opacity_rx = <<>>
    /\ call.pool = 1
    /\ Len(call.queue) = 2

\* C33: the body of the loop for a node with a mesh runs only after the
\* opacity table has been received, and with a camera only after the
\* transform table has been received too; a table that is still to be
\* received is the empty placeholder in the store, and no step of the
\* traversal indexes it.
C33_ReadsAfterReceive ==
    /\ [](call.pc # "idle" =>
             /\ call.update_opacities => components.opacities = SlotMap_new
             /\ call.update_transforms => components.transforms = SlotMap_new)
    /\ [][(last'.op = "visit" /\ get_component_links(Cur, last'.arg).mesh_key # None) =>
             /\ ~ call.update_opacities
             /\ call.camera_properties_3d # None => ~ call.update_transforms
             /\ asserts_ok']_vars

\* a node with a mesh and an opacity has been visited in a call with a
\* camera and both lists of roots non-empty, the pool having two workers
C33_Witness ==
    /\ last.op = "visit"
    /\ asserts_ok
    /\ get_component_links(Cur, last.arg).mesh_key # None
    /\ get_component_links(Cur, last.arg).opacity_key # None
    /\ call.camera_properties_3d # None
    /\ call.dirty_world_roots # <<>>
    /\ call.dirty_opacity_roots # <<>>
    /\ call.pool = 2

\* C34: whatever the interleaving of the two tasks and the traversal, the
\* two tables and the two lists at return are those of the opacity pass, the
\* transform pass and then the traversal run one after the other on the
\* store and the scene the call was given.
C34_AsSequential ==
    Returned =>
       /\ components = build_render_lists_updated(call.components_in, Cur,
                                                  call.dirty_world_roots,
                                                  call.dirty_opacity_roots)
       /\ [opaque_list |-> opaque_list, alpha_list |-> alpha_list]
             = build_render_lists_lists(
                   build_render_lists_updated(call.components_in, Cur,
                                              call.dirty_world_roots,
                                              call.dirty_opacity_roots),
                   Cur, call.start_node_key, call.camera_properties_3d,
                   [opaque_list |-> <<>>, alpha_list |-> <<>>], call.tie)

\* a call with two workers, a camera and both lists of roots non-empty has
\* returned; the alpha list holds a mesh of opacity 1 that is translucent by
\* the opacity its pass gave it, and the opaque list is not empty
C34_Witness ==
    /\ Returned
    /\ call.pool = 2
    /\ call.camera_properties_3d # None
    /\ call.dirty_world_roots # <<>>
    /\ call.dirty_opacity_roots # <<>>
    /\ opaque_list # <<>>
    /\ \E i \in 1..Len(alpha_list) :
          /\ OpacityOf(components.opacities, Cur, alpha_list[i][1]).opacity = OpacityOne
          /\ OpacityOf(call.components_in.opacities, Cur, alpha_list[i][1]).inherited_opacity
                = OpacityOne

====
